---- MODULE Spec2Model ----
(***************************************************************************)
(* Sigstore bundle verification (sigstore-js).                             *)
(*                                                                         *)
(*  - SpecCheckpoint: verifyCheckpoint of packages/verify                  *)
(*    (timestamp/checkpoint.ts): signed-note parsing, checkpoint parsing,  *)
(*    signature verification and the root-hash comparison.                 *)
(*  - SpecVerifier: the Verifier orchestrator of packages/verify           *)
(*    (signature, timestamps, thresholds, key trust, log body, policy).    *)
(*  - SpecClient: the Verifier of packages/client (verify.ts,              *)
(*    tlog/verify/index.ts): artifact signature, signing certificate,      *)
(*    transparency-log entries.                                            *)
(*  - SpecPAE, SpecTLogBody, SpecBundleJSON, SpecSignedEntity:             *)
(*    dssePreAuthEncoding, verifyTLogBody, the bundle's JSON form and      *)
(*    toSignedEntity, applied to inputs.                                   *)
(*  - SpecFulcioSigner: FulcioSigner.sign of packages/sign.                *)
(*  - SpecPromiseAny: promiseAny of util.ts, with the promise job queue.   *)
(*                                                                         *)
(* Text is a sequence of one-character strings; bytes are 0..255.          *)
(***************************************************************************)
EXTENDS Integers, Sequences, FiniteSets, TLC

VARIABLES
    \* ---- verifyCheckpoint (checkpoint.ts) ----
    entry,        \* TLogEntryWithInclusionProof: integratedTime, inclusionProof
    tlogs,        \* TLogAuthority[] handed to verifyCheckpoint
    pc,           \* position inside verifyCheckpoint
    validTLogs,   \* const validTLogs
    signedNote,   \* const signedNote
    checkpoint,   \* const checkpoint
    result,       \* Pending, Returned or the error thrown
    events,       \* signature lines parsed / signatures verified, in order
    \* ---- Verifier.verify (verifier) ----
    entity,       \* SignedEntity
    options,      \* VerifierOptions: the three thresholds
    policy,       \* VerificationPolicy or NoPolicy
    vpc,          \* position inside Verifier.verify
    vresult,      \* Pending, Returned or the error thrown
    steps,        \* steps of verify that were run, in order
    timestamps,   \* verified timestamps collected by verifyTimestamps
    \* ---- Verifier.verify (packages/client, verify.ts) ----
    trustedRoot,  \* this.trustedRoot
    keySelector,  \* this.keySelector
    bundle,       \* the caller's bundle object
    verifyOptions,\* the caller's options object
    clData,       \* the caller's artifact (data), or NoData
    clpc,         \* position inside verify
    clresult,     \* Pending, Returned or the error thrown
    calls,        \* what verify called, in order
    history,      \* the verifier, the arguments and the results of earlier calls
    \* ---- functions applied to an input ----
    input,        \* the argument
    output,       \* NotApplied, or the value returned or the error thrown
    \* ---- FulcioSigner.sign (packages/sign, signer/fulcio/index.ts) ----
    fulcio,       \* this.identityProvider, this.keyHolder and the data to sign
    fspc,         \* the await at which sign stands
    identityToken,\* const identityToken
    challenge,    \* const challenge
    certificates, \* const certificates
    fsresult,     \* Pending, the Signature returned or the error thrown
    trace,        \* the calls sign made to its collaborators, in order
    \* ---- promiseAny (util.ts) ----
    values,       \* the input promises
    inverted,     \* the promises made by the map callback
    all,          \* the promise of Promise.all
    outer,        \* the promise promiseAny returns
    jobs,         \* the promise job queue
    settled       \* the inputs in the order they settled, and outer if it did

cpVars == <<entry, tlogs, pc, validTLogs, signedNote, checkpoint, result, events>>
vfVars == <<entity, options, policy, vpc, vresult, steps, timestamps>>
clVars == <<trustedRoot, keySelector, bundle, verifyOptions, clData, clpc, clresult, calls, history>>
fnVars == <<input, output>>
fsVars == <<fulcio, fspc, identityToken, challenge, certificates, fsresult, trace>>
paVars == <<values, inverted, all, outer, jobs, settled>>
asVars == <<fsVars, paVars>>
vars == <<entry, tlogs, pc, validTLogs, signedNote, checkpoint, result, events,
          entity, options, policy, vpc, vresult, steps, timestamps,
          trustedRoot, keySelector, bundle, verifyOptions, clData, clpc, clresult, calls, history,
          input, output,
          fulcio, fspc, identityToken, challenge, certificates, fsresult, trace,
          values, inverted, all, outer, jobs, settled>>

(***************************************************************************)
(* Characters                                                              *)
(***************************************************************************)
LF == "\n"
SP == " "
EMDASH == "EM"      \* U+2014
PAD == "="

WhiteSpace == {LF, SP}

B64Alphabet ==
    <<"A","B","C","D","E","F","G","H","I","J","K","L","M","N","O","P",
      "Q","R","S","T","U","V","W","X","Y","Z","a","b","c","d","e","f",
      "g","h","i","j","k","l","m","n","o","p","q","r","s","t","u","v",
      "w","x","y","z","0","1","2","3","4","5","6","7","8","9","+","/">>

B64Chars == {B64Alphabet[i] : i \in 1..Len(B64Alphabet)}

B64Value(c) == (CHOOSE i \in 1..Len(B64Alphabet) : B64Alphabet[i] = c) - 1

Digits == {"0","1","2","3","4","5","6","7","8","9"}

RECURSIVE Concat(_)
Concat(ss) == IF ss = <<>> THEN <<>> ELSE Head(ss) \o Concat(Tail(ss))

(***************************************************************************)
(* Buffer.from(str, 'base64'): characters outside the alphabet are         *)
(* skipped, decoding stops at the first '=', a trailing group of two or    *)
(* three characters gives one or two bytes, a trailing single character    *)
(* gives none.                                                             *)
(***************************************************************************)
RECURSIVE B64Values(_)
B64Values(s) ==
    IF s = <<>> \/ Head(s) = PAD THEN <<>>
    ELSE IF Head(s) \in B64Chars THEN <<B64Value(Head(s))>> \o B64Values(Tail(s))
    ELSE B64Values(Tail(s))

RECURSIVE BytesOfSextets(_)
BytesOfSextets(v) ==
    IF Len(v) >= 4 THEN
        LET w == v[1] * 262144 + v[2] * 4096 + v[3] * 64 + v[4]
        IN <<w \div 65536, (w \div 256) % 256, w % 256>>
               \o BytesOfSextets(SubSeq(v, 5, Len(v)))
    ELSE IF Len(v) = 3 THEN
        LET w == v[1] * 4096 + v[2] * 64 + v[3]
        IN <<w \div 1024, (w \div 4) % 256>>
    ELSE IF Len(v) = 2 THEN <<(v[1] * 64 + v[2]) \div 16>>
    ELSE <<>>

Base64Decode(s) == BytesOfSextets(B64Values(s))

\* Buffer#toString('base64'): the padded encoding the log writes.
RECURSIVE Base64Encode(_)
Base64Encode(b) ==
    IF Len(b) >= 3 THEN
        LET w == b[1] * 65536 + b[2] * 256 + b[3]
        IN <<B64Alphabet[(w \div 262144) + 1], B64Alphabet[((w \div 4096) % 64) + 1],
             B64Alphabet[((w \div 64) % 64) + 1], B64Alphabet[(w % 64) + 1]>>
               \o Base64Encode(SubSeq(b, 4, Len(b)))
    ELSE IF Len(b) = 2 THEN
        LET w == (b[1] * 256 + b[2]) * 4
        IN <<B64Alphabet[(w \div 4096) + 1], B64Alphabet[((w \div 64) % 64) + 1],
             B64Alphabet[(w % 64) + 1], PAD>>
    ELSE IF Len(b) = 1 THEN
        LET w == b[1] * 16
        IN <<B64Alphabet[(w \div 64) + 1], B64Alphabet[(w % 64) + 1], PAD, PAD>>
    ELSE <<>>

(***************************************************************************)
(* Buffer.from(str, 'utf-8')                                               *)
(***************************************************************************)
AsciiOf(c) ==
    IF c = LF THEN 10
    ELSE IF c = SP THEN 32
    ELSE IF c = PAD THEN 61
    ELSE IF c = "-" THEN 45
    ELSE IF c = "." THEN 46
    ELSE LET i == B64Value(c)
         IN IF i < 26 THEN 65 + i
            ELSE IF i < 52 THEN 97 + (i - 26)
            ELSE IF i < 62 THEN 48 + (i - 52)
            ELSE IF i = 62 THEN 43 ELSE 47

RECURSIVE Utf8(_)
Utf8(s) ==
    IF s = <<>> THEN <<>>
    ELSE (IF Head(s) = EMDASH THEN <<226, 128, 148>> ELSE <<AsciiOf(Head(s))>>)
             \o Utf8(Tail(s))

(***************************************************************************)
(* @sigstore/core crypto.  A key pair is a number; the signature of data   *)
(* under a key is the key followed by the signed bytes, so that a          *)
(* signature verifies under exactly one key over exactly one message.      *)
(***************************************************************************)
SignatureOf(privateKey, data) == <<privateKey>> \o data

CryptoVerify(data, publicKey, signature) == signature = SignatureOf(publicKey, data)

BufferEqual(a, b) == a = b

(***************************************************************************)
(* Errors                                                                  *)
(***************************************************************************)
VerificationError(code, message) ==
    [name |-> "VerificationError", code |-> code, message |-> message]

PolicyError(code, message) ==
    [name |-> "PolicyError", code |-> code, message |-> message]

\* BigInt(str) on a string that is no StringNumericLiteral
SyntaxError == [name |-> "SyntaxError", code |-> "none", message |-> "Cannot convert to a BigInt"]

\* A call that has not ended yet, and a call that returned without throwing
Pending == [name |-> "pending", code |-> "none", message |-> ""]
Returned == [name |-> "returned", code |-> "none", message |-> ""]

IsError(r) == r.name \notin {"pending", "returned"}

(***************************************************************************)
(* String.prototype: includes, indexOf, slice, trimEnd, split              *)
(***************************************************************************)
OccursAt(s, sub, i) ==
    /\ i >= 1
    /\ i + Len(sub) - 1 <= Len(s)
    /\ SubSeq(s, i, i + Len(sub) - 1) = sub

Includes(s, sub) == \E i \in 1..Len(s) : OccursAt(s, sub, i)

\* 0-based index of the first occurrence, -1 when there is none
IndexOf(s, sub) ==
    IF Includes(s, sub)
    THEN (CHOOSE i \in 1..Len(s) :
              OccursAt(s, sub, i) /\ \A j \in 1..(i - 1) : ~OccursAt(s, sub, j)) - 1
    ELSE -1

\* s.slice(from, to) with 0 <= from, to: characters from..to-1 (0-based)
Slice(s, from, to) == SubSeq(s, from + 1, IF to > Len(s) THEN Len(s) ELSE to)

SliceFrom(s, from) == SubSeq(s, from + 1, Len(s))

RECURSIVE TrimEnd(_)
TrimEnd(s) ==
    IF s # <<>> /\ s[Len(s)] \in WhiteSpace THEN TrimEnd(SubSeq(s, 1, Len(s) - 1)) ELSE s

RECURSIVE TrimStart(_)
TrimStart(s) ==
    IF s # <<>> /\ Head(s) \in WhiteSpace THEN TrimStart(Tail(s)) ELSE s

\* s.split('\n'): always at least one piece
RECURSIVE SplitLines(_)
SplitLines(s) ==
    IF \E i \in 1..Len(s) : s[i] = LF
    THEN LET i == CHOOSE i \in 1..Len(s) : s[i] = LF /\ \A j \in 1..(i - 1) : s[j] # LF
         IN <<SubSeq(s, 1, i - 1)>> \o SplitLines(SubSeq(s, i + 1, Len(s)))
    ELSE <<s>>

(***************************************************************************)
(* BigInt(str): StringToBigInt.  White space is trimmed, the empty string  *)
(* is 0n, a decimal literal may carry a sign, 0x/0o/0b literals are        *)
(* accepted unsigned; anything else throws a SyntaxError.                  *)
(***************************************************************************)
HexDigits == Digits \cup {"a","b","c","d","e","f","A","B","C","D","E","F"}
OctDigits == {"0","1","2","3","4","5","6","7"}
BinDigits == {"0","1"}

AllIn(s, set) == \A i \in 1..Len(s) : s[i] \in set

IsStringNumericLiteral(str) ==
    LET t == TrimEnd(TrimStart(str))
    IN \/ t = <<>>
       \/ AllIn(t, Digits)
       \/ Len(t) >= 2 /\ t[1] \in {"+", "-"} /\ AllIn(Tail(t), Digits)
       \/ Len(t) >= 3 /\ t[1] = "0" /\ t[2] \in {"x", "X"} /\ AllIn(SubSeq(t, 3, Len(t)), HexDigits)
       \/ Len(t) >= 3 /\ t[1] = "0" /\ t[2] \in {"o", "O"} /\ AllIn(SubSeq(t, 3, Len(t)), OctDigits)
       \/ Len(t) >= 3 /\ t[1] = "0" /\ t[2] \in {"b", "B"} /\ AllIn(SubSeq(t, 3, Len(t)), BinDigits)

BigIntThrows(str) == ~IsStringNumericLiteral(str)

(***************************************************************************)
(* checkpoint.ts                                                           *)
(***************************************************************************)
CHECKPOINT_SEPARATOR == <<LF, LF>>

\* End (exclusive, 1-based) of the longest run of \S characters from i
RECURSIVE NonSpaceRunEnd(_, _)
NonSpaceRunEnd(s, i) ==
    IF i <= Len(s) /\ s[i] \notin WhiteSpace THEN NonSpaceRunEnd(s, i + 1) ELSE i

\* SIGNATURE_REGEX = /— (\S+) (\S+)\n/ anchored at position i (1-based).
\* \S+ is greedy and must be followed by a white-space character, so each
\* group is a maximal run of non-space characters.
SignatureMatchAt(s, i) ==
    IF i + 1 <= Len(s) /\ s[i] = EMDASH /\ s[i + 1] = SP
    THEN LET j == NonSpaceRunEnd(s, i + 2)
             k == NonSpaceRunEnd(s, j + 1)
         IN IF /\ j > i + 2
               /\ j <= Len(s)
               /\ s[j] = SP
               /\ k > j + 1
               /\ k <= Len(s)
               /\ s[k] = LF
            THEN [found |-> TRUE, name |-> SubSeq(s, i + 2, j - 1),
                  signature |-> SubSeq(s, j + 1, k - 1), next |-> k + 1]
            ELSE [found |-> FALSE, name |-> <<>>, signature |-> <<>>, next |-> i + 1]
    ELSE [found |-> FALSE, name |-> <<>>, signature |-> <<>>, next |-> i + 1]

\* data.matchAll(SIGNATURE_REGEX): the matches from position i on, in order
RECURSIVE MatchAllFrom(_, _)
MatchAllFrom(s, i) ==
    IF i > Len(s) THEN <<>>
    ELSE LET m == SignatureMatchAt(s, i)
         IN IF m.found
            THEN <<[name |-> m.name, signature |-> m.signature]>> \o MatchAllFrom(s, m.next)
            ELSE MatchAllFrom(s, m.next)

MatchAll(s) == MatchAllFrom(s, 1)

\* sigBytes.length < 5: no room for the key hint and one signature byte
MinSignatureBytes == 5
KeyHintBytes == 4

\* ParseSignature with the length test off by one (sigBytes.length < 4)
ParseSignatureOffByOne(match) ==
    LET sigBytes == Base64Decode(match.signature)
    IN IF Len(sigBytes) < KeyHintBytes
       THEN [throws |-> TRUE, name |-> match.name, keyHint |-> <<>>, signature |-> <<>>]
       ELSE [throws |-> FALSE, name |-> match.name,
             keyHint |-> SubSeq(sigBytes, 1, KeyHintBytes),
             signature |-> SubSeq(sigBytes, KeyHintBytes + 1, Len(sigBytes))]

\* The callback of Array.from(matches, ...) on one match
ParseSignature(match) ==
    LET sigBytes == Base64Decode(match.signature)
    IN IF Len(sigBytes) < MinSignatureBytes
       THEN [throws |-> TRUE, name |-> match.name, keyHint |-> <<>>, signature |-> <<>>]
       ELSE [throws |-> FALSE, name |-> match.name,
             keyHint |-> SubSeq(sigBytes, 1, KeyHintBytes),
             signature |-> SubSeq(sigBytes, KeyHintBytes + 1, Len(sigBytes))]

TLogSignature(p) == [name |-> p.name, keyHint |-> p.keyHint, signature |-> p.signature]

\* NoteHeader cut at the separator itself (envelope.slice(0, split))
NoteHeaderWithoutNewline(envelope) == Slice(envelope, 0, IndexOf(envelope, CHECKPOINT_SEPARATOR))

\* The header and data portions SignedNote.fromString cuts the envelope into
NoteHeader(envelope) == Slice(envelope, 0, IndexOf(envelope, CHECKPOINT_SEPARATOR) + 1)

NoteData(envelope) ==
    SliceFrom(envelope, IndexOf(envelope, CHECKPOINT_SEPARATOR) + Len(CHECKPOINT_SEPARATOR))

\* Number of matches the Array.from callback is run on: all of them, or those
\* up to and including the first one that throws.
ParsedCount(parsed) ==
    IF \E i \in 1..Len(parsed) : parsed[i].throws
    THEN CHOOSE i \in 1..Len(parsed) :
             parsed[i].throws /\ \A j \in 1..(i - 1) : ~parsed[j].throws
    ELSE Len(parsed)

\* SignedNote.fromString: the note, or the error thrown
SignedNoteFromString(envelope) ==
    IF ~Includes(envelope, CHECKPOINT_SEPARATOR)
    THEN [error |-> VerificationError("TLOG_INCLUSION_PROOF_ERROR", "missing checkpoint separator"),
          note |-> <<>>, signatures |-> <<>>, parsed |-> 0]
    ELSE LET header == NoteHeader(envelope)
             data == NoteData(envelope)
             matches == MatchAll(data)
             parsed == [i \in 1..Len(matches) |-> ParseSignature(matches[i])]
         IN IF \E i \in 1..Len(parsed) : parsed[i].throws
            THEN [error |-> VerificationError("TLOG_INCLUSION_PROOF_ERROR", "malformed checkpoint signature"),
                  note |-> <<>>, signatures |-> <<>>, parsed |-> ParsedCount(parsed)]
            ELSE IF Len(parsed) = 0
            THEN [error |-> VerificationError("TLOG_INCLUSION_PROOF_ERROR", "no signatures found in checkpoint"),
                  note |-> <<>>, signatures |-> <<>>, parsed |-> 0]
            ELSE [error |-> Returned, note |-> header,
                  signatures |-> [i \in 1..Len(parsed) |-> TLogSignature(parsed[i])],
                  parsed |-> Len(parsed)]

\* LogCheckpoint.fromString: the checkpoint, or the error thrown
MinCheckpointLines == 3

LogCheckpointFromString(note) ==
    LET lines == SplitLines(TrimEnd(note))
    IN IF Len(lines) < MinCheckpointLines
       THEN [error |-> VerificationError("TLOG_INCLUSION_PROOF_ERROR", "too few lines in checkpoint header"),
             origin |-> <<>>, logSize |-> <<>>, logHash |-> <<>>, rest |-> <<>>]
       ELSE IF BigIntThrows(lines[2])
       THEN [error |-> SyntaxError,
             origin |-> <<>>, logSize |-> <<>>, logHash |-> <<>>, rest |-> <<>>]
       ELSE [error |-> Returned, origin |-> lines[1], logSize |-> lines[2],
             logHash |-> Base64Decode(lines[3]), rest |-> SubSeq(lines, 4, Len(lines))]

\* tlogs.find(...): the first log whose logID starts with the key hint
FindTLog(logs, keyHint) ==
    LET hits == {i \in 1..Len(logs) : BufferEqual(SubSeq(logs[i].logID, 1, KeyHintBytes), keyHint)}
    IN IF hits = {} THEN <<>>
       ELSE <<logs[CHOOSE i \in hits : \A j \in hits : i <= j]>>

\* The callback of signedNote.signatures.every(...)
VerifySignature(data, signature, logs) ==
    LET tlog == FindTLog(logs, signature.keyHint)
    IN IF tlog = <<>> THEN FALSE
       ELSE CryptoVerify(data, tlog[1].publicKey, signature.signature)

\* Number of signatures every() calls back on: it stops at the first false
VerifiedCount(note, logs) ==
    LET data == Utf8(note.note)
        bad == {i \in 1..Len(note.signatures) : ~VerifySignature(data, note.signatures[i], logs)}
    IN IF bad = {} THEN Len(note.signatures)
       ELSE CHOOSE i \in bad : \A j \in bad : i <= j

\* VerifySignedNote with some() in place of every()
VerifySignedNoteSome(note, logs) ==
    LET data == Utf8(note.note)
    IN \E i \in 1..Len(note.signatures) : VerifySignature(data, note.signatures[i], logs)

VerifySignedNote(note, logs) ==
    LET data == Utf8(note.note)
    IN \A i \in 1..Len(note.signatures) : VerifySignature(data, note.signatures[i], logs)

AllTLogAuthorities(logs, targetDate) == logs

\* filterTLogAuthorities(tlogs, {targetDate}): the logs valid at the date
FilterTLogAuthorities(logs, targetDate) ==
    SelectSeq(logs, LAMBDA t : t.validFor.start <= targetDate /\ targetDate <= t.validFor.end)

\* new Date(Number(entry.integratedTime) * 1000), in milliseconds
TargetDate(e) == e.integratedTime * 1000

(***************************************************************************)
(* verifyCheckpoint, statement by statement                                *)
(***************************************************************************)
NoSignedNote == [error |-> Pending, note |-> <<>>, signatures |-> <<>>, parsed |-> 0]
NoCheckpoint == [error |-> Pending, origin |-> <<>>, logSize |-> <<>>, logHash |-> <<>>,
                 rest |-> <<>>]

Repeat(e, n) == [i \in 1..n |-> e]

\* const validTLogs = filterTLogAuthorities(tlogs, {targetDate})
FilterStep ==
    /\ pc = "start"
    /\ validTLogs' = FilterTLogAuthorities(tlogs, TargetDate(entry))
    /\ pc' = "signedNote"
    /\ UNCHANGED <<entry, tlogs, signedNote, checkpoint, result, events>>
    /\ UNCHANGED <<vfVars, clVars, fnVars, asVars>>

\* const signedNote = SignedNote.fromString(inclusionProof.checkpoint.envelope)
SignedNoteStep ==
    /\ pc = "signedNote"
    /\ LET sn == SignedNoteFromString(entry.inclusionProof.checkpoint.envelope)
       IN /\ signedNote' = sn
          /\ events' = events \o Repeat("parseSignature", sn.parsed)
          /\ IF IsError(sn.error)
             THEN pc' = "done" /\ result' = sn.error
             ELSE pc' = "checkpoint" /\ result' = result
    /\ UNCHANGED <<entry, tlogs, validTLogs, checkpoint>>
    /\ UNCHANGED <<vfVars, clVars, fnVars, asVars>>

\* const checkpoint = LogCheckpoint.fromString(signedNote.note)
CheckpointStep ==
    /\ pc = "checkpoint"
    /\ LET cp == LogCheckpointFromString(signedNote.note)
       IN /\ checkpoint' = cp
          /\ IF IsError(cp.error)
             THEN pc' = "done" /\ result' = cp.error
             ELSE pc' = "verifySignedNote" /\ result' = result
    /\ UNCHANGED <<entry, tlogs, validTLogs, signedNote, events>>
    /\ UNCHANGED <<vfVars, clVars, fnVars, asVars>>

\* if (!verifySignedNote(signedNote, validTLogs)) throw ...
VerifySignedNoteStep ==
    /\ pc = "verifySignedNote"
    /\ events' = events \o Repeat("verifySignature", VerifiedCount(signedNote, validTLogs))
    /\ IF ~VerifySignedNote(signedNote, validTLogs)
       THEN /\ pc' = "done"
            /\ result' = VerificationError("TLOG_INCLUSION_PROOF_ERROR", "invalid checkpoint signature")
       ELSE pc' = "rootHash" /\ result' = result
    /\ UNCHANGED <<entry, tlogs, validTLogs, signedNote, checkpoint>>
    /\ UNCHANGED <<vfVars, clVars, fnVars, asVars>>

\* if (!crypto.bufferEqual(checkpoint.logHash, inclusionProof.rootHash)) throw ...
RootHashStep ==
    /\ pc = "rootHash"
    /\ pc' = "done"
    /\ IF ~BufferEqual(checkpoint.logHash, entry.inclusionProof.rootHash)
       THEN result' = VerificationError("TLOG_INCLUSION_PROOF_ERROR", "root hash mismatch")
       ELSE result' = Returned
    /\ UNCHANGED <<entry, tlogs, validTLogs, signedNote, checkpoint, events>>
    /\ UNCHANGED <<vfVars, clVars, fnVars, asVars>>


(***************************************************************************)
(* Inputs of verifyCheckpoint: trusted logs, checkpoint envelopes          *)
(***************************************************************************)
\* Most signature lines in one envelope
MaxSignatures == 2

\* LogC shares its key hint (the first four bytes of the log ID) with LogA
LogA == [logID |-> <<1, 2, 3, 4, 5>>, publicKey |-> 7,
         validFor |-> [start |-> 10000, end |-> 20000]]
LogB == [logID |-> <<9, 8, 7, 6, 5>>, publicKey |-> 8,
         validFor |-> [start |-> 0, end |-> 30000]]
LogC == [logID |-> <<1, 2, 3, 4, 6>>, publicKey |-> 9,
         validFor |-> [start |-> 0, end |-> 30000]]

TLogLists == {<<>>, <<LogA>>, <<LogB>>, <<LogA, LogB>>, <<LogA, LogC>>, <<LogC, LogA>>}

IntegratedTimes == {5, 15}

RootHashes == {<<5, 6>>, <<5, 7>>}

Line3(l1, l2, l3) == l1 \o <<LF>> \o l2 \o <<LF>> \o l3

\* "— <name> <base64(keyHint || signature)>\n"
SignatureLine(name, keyHint, signature) ==
    <<EMDASH, SP>> \o name \o <<SP>> \o Base64Encode(keyHint \o signature) \o <<LF>>

\* Note bodies, without the line break that ends them
NoteBodies ==
    { Line3(<<"r">>, <<"1", "2">>, Base64Encode(<<5, 6>>)),        \* well formed
      Line3(<<"r">>, <<"a", "b">>, Base64Encode(<<5, 6>>)),        \* size is no number
      Line3(<<"r">>, <<"0", "x", "1", "f">>, Base64Encode(<<5, 6>>)), \* size in hex
      Line3(<<"r">>, <<>>, Base64Encode(<<5, 6>>)),                \* empty size line
      <<"r", LF, "1", "2">>,                                       \* two lines
      Line3(<<"r">>, <<"7">>, Base64Encode(<<5, 6>>)) \o <<LF>>    \* signature-like line in the note
          \o <<EMDASH, SP, "n", SP>> \o Base64Encode(<<9, 8, 7, 6, 1>>) }

\* Who signs a signature line, and how
SignerKinds == {"A", "B", "C", "unknown", "forged", "short"}

SignatureLineOf(kind, body) ==
    LET data == Utf8(body \o <<LF>>)
    IN CASE kind = "A" -> SignatureLine(<<"a">>, SubSeq(LogA.logID, 1, 4), SignatureOf(LogA.publicKey, data))
         [] kind = "B" -> SignatureLine(<<"b">>, SubSeq(LogB.logID, 1, 4), SignatureOf(LogB.publicKey, data))
         [] kind = "C" -> SignatureLine(<<"c">>, SubSeq(LogC.logID, 1, 4), SignatureOf(LogC.publicKey, data))
         [] kind = "unknown" -> SignatureLine(<<"u">>, <<0, 0, 0, 0>>, SignatureOf(5, data))
         [] kind = "forged" -> SignatureLine(<<"a">>, SubSeq(LogA.logID, 1, 4), SignatureOf(5, data))
         [] kind = "short" -> SignatureLine(<<"s">>, <<1, 2, 3, 4>>, <<>>)

SignerLists == UNION {[1..n -> SignerKinds] : n \in 0..MaxSignatures}

Envelope(body, separator, signers) ==
    body \o <<LF>> \o (IF separator THEN <<LF>> ELSE <<>>)
         \o Concat([i \in 1..Len(signers) |-> SignatureLineOf(signers[i], body)])

Envelopes ==
    {Envelope(body, sep, signers) : body \in NoteBodies, sep \in BOOLEAN, signers \in SignerLists}

(***************************************************************************)
(* Specification of verifyCheckpoint                                       *)
(***************************************************************************)
NoEntity == [signatureValid |-> FALSE]

NotApplied == [name |-> "pending", code |-> "none", message |-> "", value |-> <<>>]

FunctionsIdle ==
    /\ input = <<>>
    /\ output = NotApplied

ClientIdle ==
    /\ trustedRoot = <<>>
    /\ keySelector = <<>>
    /\ bundle = <<>>
    /\ verifyOptions = <<>>
    /\ clData = <<>>
    /\ clpc = "idle"
    /\ clresult = Pending
    /\ calls = <<>>
    /\ history = <<>>

SignerIdle ==
    /\ fulcio = <<>>
    /\ fspc = "idle"
    /\ identityToken = <<>>
    /\ challenge = <<>>
    /\ certificates = <<>>
    /\ fsresult = Pending
    /\ trace = <<>>

PromiseAnyIdle ==
    /\ values = <<>>
    /\ inverted = <<>>
    /\ all = <<>>
    /\ outer = <<>>
    /\ jobs = <<>>
    /\ settled = <<>>

AsyncIdle == SignerIdle /\ PromiseAnyIdle

VerifierIdle ==
    /\ entity = NoEntity
    /\ options = <<>>
    /\ policy = <<>>
    /\ vpc = "idle"
    /\ vresult = Pending
    /\ steps = <<>>
    /\ timestamps = <<>>

InitCheckpoint ==
    /\ \E env \in Envelopes, root \in RootHashes, time \in IntegratedTimes :
           entry = [integratedTime |-> time,
                    inclusionProof |-> [rootHash |-> root, checkpoint |-> [envelope |-> env]]]
    /\ tlogs \in TLogLists
    /\ pc = "start"
    /\ validTLogs = <<>>
    /\ signedNote = NoSignedNote
    /\ checkpoint = NoCheckpoint
    /\ result = Pending
    /\ events = <<>>
    /\ VerifierIdle
    /\ ClientIdle
    /\ FunctionsIdle
    /\ AsyncIdle

NextCheckpoint ==
    \/ FilterStep
    \/ SignedNoteStep
    \/ CheckpointStep
    \/ VerifySignedNoteStep
    \/ RootHashStep

SpecCheckpoint == InitCheckpoint /\ [][NextCheckpoint]_vars

(***************************************************************************)
(* Properties of verifyCheckpoint                                          *)
(***************************************************************************)
Envelope_ == entry.inclusionProof.checkpoint.envelope

HasSeparator == \E i \in 1..(Len(Envelope_) - 1) : Envelope_[i] = LF /\ Envelope_[i + 1] = LF

\* 1-based position of the first line break of the first "\n\n"
FirstSeparator ==
    CHOOSE i \in 1..(Len(Envelope_) - 1) :
        /\ Envelope_[i] = LF /\ Envelope_[i + 1] = LF
        /\ \A j \in 1..(i - 1) : ~(Envelope_[j] = LF /\ Envelope_[j + 1] = LF)

TextBeforeSeparator == SubSeq(Envelope_, 1, FirstSeparator)
TextAfterSeparator == SubSeq(Envelope_, FirstSeparator + 2, Len(Envelope_))

SignedNoteDone == signedNote.error # Pending
SignedNoteParsed == signedNote.error = Returned
CheckpointParsed == checkpoint.error = Returned
SignaturesChecked == CheckpointParsed /\ pc \in {"rootHash", "done"}

IsProofError(r) == r.name = "VerificationError" /\ r.code = "TLOG_INCLUSION_PROOF_ERROR"

\* Signature i of the parsed note verifies under some log valid at the
\* integrated time whose log ID starts with its key hint
VerifiesUnderSomeLog(i) ==
    \E k \in 1..Len(validTLogs) :
        /\ SubSeq(validTLogs[k].logID, 1, 4) = signedNote.signatures[i].keyHint
        /\ signedNote.signatures[i].signature
               = SignatureOf(validTLogs[k].publicKey, Utf8(signedNote.note))

\* Signature i verifies under the first such log of the list
VerifiesUnderFirstLog(i) ==
    \E k \in 1..Len(validTLogs) :
        /\ SubSeq(validTLogs[k].logID, 1, 4) = signedNote.signatures[i].keyHint
        /\ \A j \in 1..(k - 1) :
               SubSeq(validTLogs[j].logID, 1, 4) # signedNote.signatures[i].keyHint
        /\ signedNote.signatures[i].signature
               = SignatureOf(validTLogs[k].publicKey, Utf8(signedNote.note))

SignaturesRejected == result.message = "invalid checkpoint signature"

NoteLines == SplitLines(TrimEnd(TextBeforeSeparator))

\* C5: verifyCheckpoint fails with TLOG_INCLUSION_PROOF_ERROR whenever the log
\* hash of the note (its third line, base64-decoded) differs from
\* inclusionProof.rootHash, and returns without error only when they are equal.
C5_RootHashMismatchIsProofError ==
    pc = "done" =>
        /\ (HasSeparator /\ Len(NoteLines) >= 3
                /\ Base64Decode(NoteLines[3]) # entry.inclusionProof.rootHash)
               => IsProofError(result)
        /\ result = Returned => checkpoint.logHash = entry.inclusionProof.rootHash

\* C6: every failure of verifyCheckpoint is a VerificationError with code
\* TLOG_INCLUSION_PROOF_ERROR; no other kind of error escapes.
C6_OnlyProofErrorsEscape ==
    (pc = "done" /\ IsError(result)) => IsProofError(result)

\* C7: an envelope without "\n\n" is rejected with TLOG_INCLUSION_PROOF_ERROR
\* before any signature is parsed or verified; otherwise the note is the text
\* up to and including the first line break of the first "\n\n", and the
\* signatures are those of the text after it.
C7_SeparatorSplitsNoteFromSignatures ==
    SignedNoteDone =>
        IF ~HasSeparator
        THEN /\ pc = "done"
             /\ IsProofError(result)
             /\ result.message = "missing checkpoint separator"
             /\ events = <<>>
        ELSE /\ result.message # "missing checkpoint separator"
             /\ Len(SelectSeq(events, LAMBDA e : e = "parseSignature"))
                    <= Len(MatchAll(TextAfterSeparator))
             /\ SignedNoteParsed =>
                    /\ signedNote.note = TextBeforeSeparator
                    /\ Len(signedNote.signatures) = Len(MatchAll(TextAfterSeparator))
                    /\ \A i \in 1..Len(signedNote.signatures) :
                           signedNote.signatures[i].name = MatchAll(TextAfterSeparator)[i].name

\* A note that itself holds a signature-like line, parsed
C7_Witness ==
    /\ SignedNoteParsed
    /\ HasSeparator
    /\ \E i \in 1..Len(TextBeforeSeparator) : TextBeforeSeparator[i] = EMDASH
    /\ Len(signedNote.signatures) = 2

\* Number of base64 characters of a signature line's last field
SextetCount(text) == Len(SelectSeq(text, LAMBDA c : c \in B64Chars))

\* C8: a signature line whose base64 decodes to fewer than 5 bytes makes the
\* parse of the signed note fail with TLOG_INCLUSION_PROOF_ERROR, whatever the
\* other lines are; otherwise the first 4 decoded bytes are the key hint and
\* the remaining bytes the signature.
C8_ShortSignatureLineRejected ==
    (SignedNoteDone /\ HasSeparator) =>
        LET lines == MatchAll(TextAfterSeparator)
        IN IF \E i \in 1..Len(lines) : (SextetCount(lines[i].signature) * 6) \div 8 < 5
           THEN /\ pc = "done"
                /\ IsProofError(result)
                /\ result.message = "malformed checkpoint signature"
           ELSE /\ result.message # "malformed checkpoint signature"
                /\ SignedNoteParsed =>
                       \A i \in 1..Len(signedNote.signatures) :
                           /\ Len(signedNote.signatures[i].keyHint) = 4
                           /\ Len(signedNote.signatures[i].signature) >= 1
                           /\ Base64Encode(signedNote.signatures[i].keyHint
                                               \o signedNote.signatures[i].signature)
                                  = lines[i].signature

\* A well-formed, valid line followed by a short one
C8_Witness ==
    /\ pc = "done"
    /\ HasSeparator
    /\ result.message = "malformed checkpoint signature"
    /\ Len(MatchAll(TextAfterSeparator)) = 2
    /\ Len(Base64Decode(MatchAll(TextAfterSeparator)[1].signature)) >= 5
    /\ Len(Base64Decode(MatchAll(TextAfterSeparator)[2].signature)) < 5
    /\ events = <<"parseSignature", "parseSignature">>

(***************************************************************************)
(* Verifier.verify of packages/verify: the orchestrator.                   *)
(*                                                                         *)
(* A SignedEntity carries the key (a certificate or a public-key hint),    *)
(* the signature, the signed content and the timestamps list (RFC3161      *)
(* timestamps and transparency-log entries, each tagged with its kind).    *)
(* The proofs a timestamp rests on (SET, inclusion proof, RFC3161 token)   *)
(* and the certificate chain are given by their outcome.                   *)
(***************************************************************************)
\* Most timestamps (of both kinds together) in one signed entity
MaxTimestamps == 2

NoPolicy == <<>>

NoCertificate ==
    [publicKey |-> 0, subjectAlternativeName |-> "", extensions |-> {},
     notBefore |-> 0, notAfter |-> 0, chainTrusted |-> FALSE, scts |-> <<>>]

\* The leaf certificate of the fixtures: SAN and issuer extension
Leaf(chainTrusted, scts) ==
    [publicKey |-> 7, subjectAlternativeName |-> "brian@dehamer.com",
     extensions |-> {<<"issuer", "https://github.com/login/oauth">>},
     notBefore |-> 10, notAfter |-> 20, chainTrusted |-> chainTrusted, scts |-> scts]

CertificateKey(cert) == [case |-> "certificate", certificate |-> cert, hint |-> ""]
PublicKeyHint(hint) == [case |-> "public-key", certificate |-> NoCertificate, hint |-> hint]

\* scts: for each embedded SCT, whether it verifies against a trusted CT log
Keys ==
    { CertificateKey(Leaf(TRUE, <<TRUE>>)),
      CertificateKey(Leaf(TRUE, <<TRUE, FALSE>>)),
      CertificateKey(Leaf(FALSE, <<TRUE>>)),
      PublicKeyHint("known"),
      PublicKeyHint("unknown") }

\* TrustMaterial.publicKey(hint): the keys the verifier trusts, by hint
TrustedPublicKeys == {[hint |-> "known", publicKey |-> 3, validFor |-> [start |-> 0, end |-> 30]]}

TLogTimestamp(logIndex, time, valid, bodyMatches) ==
    [case |-> "transparency-log", logID |-> 1, logIndex |-> logIndex, time |-> time,
     valid |-> valid, bodyMatches |-> bodyMatches]

TSATimestamp(time, valid) ==
    [case |-> "timestamp-authority", logID |-> 0, logIndex |-> 0, time |-> time,
     valid |-> valid, bodyMatches |-> TRUE]

TimestampKinds ==
    { TLogTimestamp(5, 15, TRUE, TRUE),
      TLogTimestamp(6, 16, TRUE, TRUE),
      TLogTimestamp(7, 15, FALSE, TRUE),     \* SET / inclusion proof does not verify
      TLogTimestamp(8, 15, TRUE, FALSE),     \* body disagrees with the bundle
      TLogTimestamp(9, 25, TRUE, TRUE),      \* after the leaf's NotAfter
      TSATimestamp(15, TRUE),
      TSATimestamp(15, FALSE) }

TimestampLists == UNION {[1..n -> TimestampKinds] : n \in 0..MaxTimestamps}

Artifact == <<1>>
\* The artifact itself, or other bytes in its place
Artifacts == {Artifact, <<>>, <<2, 1>>}

\* The signer signs the artifact with the key the bundle names
SignerKey(key) == IF key.case = "certificate" THEN key.certificate.publicKey ELSE 3

SignedEntity(key, artifact, stamps) ==
    [key |-> key,
     signature |-> SignatureOf(SignerKey(key), Artifact),
     sigContent |-> artifact,
     tlogEntries |-> SelectSeq(stamps, LAMBDA t : t.case = "transparency-log"),
     timestamps |-> stamps]

Thresholds ==
    [tlogThreshold : {0, 1, 2}, ctlogThreshold : {1, 2}, tsaThreshold : {0, 1}]

Policies ==
    { NoPolicy,
      <<[subjectAlternativeName |-> "brian@dehamer.com",
         extensions |-> {<<"issuer", "https://github.com/login/oauth">>}]>>,
      <<[subjectAlternativeName |-> "foo@bar.com", extensions |-> {}]>>,
      <<[subjectAlternativeName |-> "brian@dehamer.com",
         extensions |-> {<<"issuer", "https://accounts.google.com">>}]>> }

\* TrustMaterial.publicKey(hint): the trusted keys filed under the hint
PublicKeysFor(hint) == {k \in TrustedPublicKeys : k.hint = hint}

\* The key the signature is checked with: the leaf's, or the one the hint selects
HasVerificationKey(e) ==
    e.key.case = "certificate" \/ PublicKeysFor(e.key.hint) # {}

VerificationKey(e) ==
    IF e.key.case = "certificate"
    THEN e.key.certificate.publicKey
    ELSE (CHOOSE k \in PublicKeysFor(e.key.hint) : TRUE).publicKey

SignatureUnchecked(e) == TRUE

\* The signature over the signed content verifies under the key
SignatureVerifies(e) ==
    CryptoVerify(e.sigContent, VerificationKey(e), e.signature)

NoDuplicateCheck(entries) == FALSE

\* Two log entries at different positions with the same log id and log index
HasDuplicateEntries(entries) ==
    \E i, j \in 1..Len(entries) :
        /\ i < j
        /\ entries[i].logID = entries[j].logID
        /\ entries[i].logIndex = entries[j].logIndex

\* The timestamps whose proof verifies; the others are discarded
VerifiedTimestamps(stamps) == SelectSeq(stamps, LAMBDA t : t.valid)

CountOf(stamps, case) == Len(SelectSeq(stamps, LAMBDA t : t.case = case))

ThresholdWithoutTSA(stamps, opts) ==
    CountOf(stamps, "transparency-log") >= opts.tlogThreshold

ThresholdsMet(stamps, opts) ==
    /\ CountOf(stamps, "transparency-log") >= opts.tlogThreshold
    /\ CountOf(stamps, "timestamp-authority") >= opts.tsaThreshold

\* Every verified timestamp lies in the leaf's [NotBefore, NotAfter)
WithinValidity(cert, stamps) ==
    \A i \in 1..Len(stamps) :
        cert.notBefore <= stamps[i].time /\ stamps[i].time < cert.notAfter

ValidSCTs(cert) == Len(SelectSeq(cert.scts, LAMBDA ok : ok))

SCTThresholdIgnored(cert, opts) == ValidSCTs(cert) >= 1

SCTThresholdMet(cert, opts) == ValidSCTs(cert) >= opts.ctlogThreshold

CertificateTrusted(cert, stamps) ==
    cert.chainTrusted /\ WithinValidity(cert, stamps)

\* The trusted key's valid_for window covers every verified timestamp
PublicKeyTrusted(hint, stamps) ==
    \E k \in PublicKeysFor(hint) :
        \A i \in 1..Len(stamps) :
            k.validFor.start <= stamps[i].time /\ stamps[i].time <= k.validFor.end

BodiesMatch(stamps) ==
    \A i \in 1..Len(stamps) :
        stamps[i].case = "transparency-log" => stamps[i].bodyMatches

PolicySANOnly(key, p) ==
    /\ key.case = "certificate"
    /\ key.certificate.subjectAlternativeName = p.subjectAlternativeName

\* The leaf carries the policy's SAN and each requested extension with its value
PolicyMatches(key, p) ==
    /\ key.case = "certificate"
    /\ key.certificate.subjectAlternativeName = p.subjectAlternativeName
    /\ p.extensions \subseteq key.certificate.extensions

Fail(error) ==
    /\ vresult' = error
    /\ vpc' = "done"

Advance(next) ==
    /\ vresult' = vresult
    /\ vpc' = next

\* Step 2: the signature over the content, with the embedded or selected key
VerifySignatureStep ==
    /\ vpc = "signature"
    /\ steps' = Append(steps, "signature")
    /\ IF ~HasVerificationKey(entity)
       THEN Fail(VerificationError("PUBLIC_KEY_ERROR", "no key for hint"))
       ELSE IF ~SignatureVerifies(entity)
       THEN Fail(VerificationError("SIGNATURE_ERROR", "signature verification failed"))
       ELSE Advance("timestamps")
    /\ UNCHANGED <<entity, options, policy, timestamps>>
    /\ UNCHANGED <<cpVars, clVars, fnVars, asVars>>

\* Step 3: collect the timestamps, discard the invalid ones, reject duplicates
VerifyTimestampsStep ==
    /\ vpc = "timestamps"
    /\ steps' = Append(steps, "timestamps")
    /\ IF HasDuplicateEntries(entity.tlogEntries)
       THEN /\ Fail(VerificationError("TIMESTAMP_ERROR", "duplicate tlog entry"))
            /\ UNCHANGED timestamps
       ELSE /\ Advance("threshold")
            /\ timestamps' = VerifiedTimestamps(entity.timestamps)
    /\ UNCHANGED <<entity, options, policy>>
    /\ UNCHANGED <<cpVars, clVars, fnVars, asVars>>

\* Step 4: the verified timestamps of each kind against their thresholds
ThresholdStep ==
    /\ vpc = "threshold"
    /\ steps' = Append(steps, "threshold")
    /\ IF ~ThresholdsMet(timestamps, options)
       THEN Fail(VerificationError("TIMESTAMP_ERROR", "timestamp threshold not met"))
       ELSE Advance("key")
    /\ UNCHANGED <<entity, options, policy, timestamps>>
    /\ UNCHANGED <<cpVars, clVars, fnVars, asVars>>

\* Step 5: the certificate chain and its SCTs, or the trusted public key
VerifySigningKeyStep ==
    /\ vpc = "key"
    /\ steps' = Append(steps, "key")
    /\ IF entity.key.case = "certificate"
       THEN IF ~CertificateTrusted(entity.key.certificate, timestamps)
            THEN Fail(VerificationError("CERTIFICATE_ERROR", "certificate not trusted"))
            ELSE IF ~SCTThresholdMet(entity.key.certificate, options)
            THEN Fail(VerificationError("CERTIFICATE_ERROR", "SCT threshold not met"))
            ELSE Advance("tlogBody")
       ELSE IF ~PublicKeyTrusted(entity.key.hint, timestamps)
            THEN Fail(VerificationError("PUBLIC_KEY_ERROR", "key not valid"))
            ELSE Advance("tlogBody")
    /\ UNCHANGED <<entity, options, policy, timestamps>>
    /\ UNCHANGED <<cpVars, clVars, fnVars, asVars>>

\* Step 6: each accepted log entry's body against the bundle content
VerifyTLogBodyStep ==
    /\ vpc = "tlogBody"
    /\ steps' = Append(steps, "tlogBody")
    /\ IF ~BodiesMatch(timestamps)
       THEN Fail(VerificationError("TLOG_BODY_ERROR", "tlog body mismatch"))
       ELSE Advance("policy")
    /\ UNCHANGED <<entity, options, policy, timestamps>>
    /\ UNCHANGED <<cpVars, clVars, fnVars, asVars>>

\* Step 7: the signer's identity against the policy, when one is supplied
VerifyPolicyStep ==
    /\ vpc = "policy"
    /\ steps' = Append(steps, "policy")
    /\ IF policy # NoPolicy /\ ~PolicyMatches(entity.key, policy[1])
       THEN Fail(PolicyError("UNTRUSTED_SIGNER_ERROR", "signer does not match policy"))
       ELSE /\ vresult' = Returned
            /\ vpc' = "done"
    /\ UNCHANGED <<entity, options, policy, timestamps>>
    /\ UNCHANGED <<cpVars, clVars, fnVars, asVars>>

CheckpointIdle ==
    /\ entry = [integratedTime |-> 0,
                inclusionProof |-> [rootHash |-> <<>>, checkpoint |-> [envelope |-> <<>>]]]
    /\ tlogs = <<>>
    /\ pc = "idle"
    /\ validTLogs = <<>>
    /\ signedNote = NoSignedNote
    /\ checkpoint = NoCheckpoint
    /\ result = Pending
    /\ events = <<>>

InitVerifier ==
    /\ \E key \in Keys, artifact \in Artifacts, stamps \in TimestampLists :
           entity = SignedEntity(key, artifact, stamps)
    /\ options \in Thresholds
    /\ policy \in Policies
    /\ vpc = "signature"
    /\ vresult = Pending
    /\ steps = <<>>
    /\ timestamps = <<>>
    /\ CheckpointIdle
    /\ ClientIdle
    /\ FunctionsIdle
    /\ AsyncIdle

NextVerifier ==
    \/ VerifySignatureStep
    \/ VerifyTimestampsStep
    \/ ThresholdStep
    \/ VerifySigningKeyStep
    \/ VerifyTLogBodyStep
    \/ VerifyPolicyStep

SpecVerifier == InitVerifier /\ [][NextVerifier]_vars

(***************************************************************************)
(* Properties of Verifier.verify, checked under SpecVerifier.               *)
(***************************************************************************)
VerifierDone == vpc = "done"

StepOrder == <<"signature", "timestamps", "threshold", "key", "tlogBody", "policy">>

FailedWith(name, code) ==
    VerifierDone /\ vresult.name = name /\ vresult.code = code

\* The entity's signature verifies over its content under its key
EntitySignatureVerifies ==
    /\ HasVerificationKey(entity)
    /\ CryptoVerify(entity.sigContent, VerificationKey(entity), entity.signature)

EntityHasDuplicates ==
    \E i, j \in 1..Len(entity.tlogEntries) :
        /\ i # j
        /\ entity.tlogEntries[i].logID = entity.tlogEntries[j].logID
        /\ entity.tlogEntries[i].logIndex = entity.tlogEntries[j].logIndex

\* The number of the entity's timestamps of one kind that pass verification
PassingCount(case) ==
    Cardinality({i \in 1..Len(entity.timestamps) :
                    entity.timestamps[i].case = case /\ entity.timestamps[i].valid})

BelowThreshold ==
    \/ PassingCount("transparency-log") < options.tlogThreshold
    \/ PassingCount("timestamp-authority") < options.tsaThreshold

ValidSCTCount ==
    Cardinality({i \in 1..Len(entity.key.certificate.scts) : entity.key.certificate.scts[i]})

SignerMatchesPolicy ==
    /\ entity.key.case = "certificate"
    /\ entity.key.certificate.subjectAlternativeName = policy[1].subjectAlternativeName
    /\ \A ext \in policy[1].extensions : ext \in entity.key.certificate.extensions

C10_SCTThresholdIsCertificateError ==
    ( /\ entity.key.case = "certificate"
      /\ EntitySignatureVerifies
      /\ ~EntityHasDuplicates
      /\ ~BelowThreshold
      /\ ValidSCTCount < options.ctlogThreshold ) =>
        /\ Len(steps) <= 4
        /\ Len(steps) = 4 => FailedWith("VerificationError", "CERTIFICATE_ERROR")

C10_Witness ==
    /\ FailedWith("VerificationError", "CERTIFICATE_ERROR")
    /\ steps = SubSeq(StepOrder, 1, 4)
    /\ entity.key.certificate.chainTrusted
    /\ options.ctlogThreshold = 2
    /\ ValidSCTCount = 1
    /\ PassingCount("transparency-log") >= 1

(***************************************************************************)
(* util: dssePreAuthEncoding.  A template literal writes a number in       *)
(* decimal; Buffer.from(str, 'ascii') keeps the low byte of each code      *)
(* unit.                                                                   *)
(***************************************************************************)
DigitChars == <<"0", "1", "2", "3", "4", "5", "6", "7", "8", "9">>

\* String(n) for a non-negative integer n
RECURSIVE NumberToString(_)
NumberToString(n) ==
    IF n < 10 THEN <<DigitChars[n + 1]>>
    ELSE NumberToString(n \div 10) \o <<DigitChars[(n % 10) + 1]>>

\* charCodeAt: the UTF-16 code unit of a character
CodeUnit(c) == IF c = EMDASH THEN 8212 ELSE AsciiOf(c)

\* Buffer.from(str, 'ascii')
BufferFromAscii(str) == [i \in 1..Len(str) |-> CodeUnit(str[i]) % 256]

DSSEv2 == <<"D", "S", "S", "E", "v", "2">>

DSSEv1 == <<"D", "S", "S", "E", "v", "1">>

PreAuthEncodingNoTrailingSpace(payloadType, payload) ==
    BufferFromAscii(DSSEv1 \o <<SP>> \o NumberToString(Len(payloadType)) \o <<SP>>
                    \o payloadType \o <<SP>> \o NumberToString(Len(payload)))
        \o payload

dssePreAuthEncoding(payloadType, payload) ==
    LET prefix == BufferFromAscii(
                      DSSEv1 \o <<SP>> \o NumberToString(Len(payloadType)) \o <<SP>>
                      \o payloadType \o <<SP>> \o NumberToString(Len(payload)) \o <<SP>>)
    IN  prefix \o payload

(***************************************************************************)
(* Verifier of packages/client (verify.ts).                                *)
(*                                                                         *)
(* Its VerificationError is constructed from a message alone.  The digest  *)
(* of data is the data under a tag, so that equal digests mean equal data. *)
(***************************************************************************)
ClientError(message) ==
    [name |-> "VerificationError", code |-> "none", message |-> message]

\* Reading a property of undefined
TypeError == [name |-> "TypeError", code |-> "none", message |-> "undefined"]

NoData == [defined |-> FALSE, bytes |-> <<>>]
Data(bytes) == [defined |-> TRUE, bytes |-> bytes]

\* crypto.hash(data)
Hash(bytes) == [sha256 |-> bytes]

NoKey == [found |-> FALSE, pem |-> 0, wellFormed |-> FALSE]

\* keySelector(hint): the configured key, or undefined
SelectKey(selector, hint) ==
    IF \E k \in selector : k.hint = hint
    THEN LET k == CHOOSE k \in selector : k.hint = hint
         IN  [found |-> TRUE, pem |-> k.pem, wellFormed |-> k.wellFormed]
    ELSE NoKey

\* The outcome of a call: the value returned, or the error thrown
Value(v) == [error |-> Returned, value |-> v]
Throw(e) == [error |-> e, value |-> 0]

\* getPublicKeyFromHint(publicKeyID, keySelector)
getPublicKeyFromHint(publicKeyID, selector) ==
    LET key == SelectKey(selector, publicKeyID.hint)
    IN  IF ~key.found
        THEN Throw(ClientError("no public key found for signature verification"))
        ELSE IF ~key.wellFormed
        THEN Throw(ClientError("invalid public key"))
        ELSE Value(key.pem)

\* getPublicKeyFromCertificateChain(certificateChain)
getPublicKeyFromCertificateChain(certificateChain) ==
    Value(certificateChain.certificates[1].publicKey)

\* The key getPublicKey returns when the switch matches no case: undefined
UndefinedKey == 0

\* Verifier.getPublicKey(bundle)
getPublicKey(b, selector) ==
    IF b.verificationMaterial.content.case = "x509CertificateChain"
    THEN getPublicKeyFromCertificateChain(b.verificationMaterial.content.x509CertificateChain)
    ELSE IF b.verificationMaterial.content.case = "publicKey"
    THEN getPublicKeyFromHint(b.verificationMaterial.content.publicKey, selector)
    ELSE Value(UndefinedKey)

\* What a function did: the calls it made, in order, and its outcome
Did(made, error) == [calls |-> made, error |-> error]

\* verifyMessageSignature(data, messageSignature, publicKey)
verifyMessageSignature(bytes, messageSignature, publicKey) ==
    IF Hash(bytes) # messageSignature.messageDigest.digest
    THEN Did(<<"hash">>, ClientError("message digest verification failed"))
    ELSE IF ~CryptoVerify(bytes, publicKey, messageSignature.signature)
    THEN Did(<<"hash", "verifyBlob">>, ClientError("artifact signature verification failed"))
    ELSE Did(<<"hash", "verifyBlob">>, Returned)

DSSESignatureLast(envelope, publicKey) ==
    IF envelope.signatures = <<>>
    THEN Did(<<"preAuthEncoding">>, TypeError)
    ELSE IF ~CryptoVerify(dssePreAuthEncoding(envelope.payloadType, envelope.payload),
                          publicKey, envelope.signatures[Len(envelope.signatures)].sig)
    THEN Did(<<"preAuthEncoding", "verifyBlob">>,
             ClientError("artifact signature verification failed"))
    ELSE Did(<<"preAuthEncoding", "verifyBlob">>, Returned)

\* verifyDSSESignature(envelope, publicKey)
verifyDSSESignature(envelope, publicKey) ==
    IF envelope.signatures = <<>>
    THEN Did(<<"preAuthEncoding">>, TypeError)
    ELSE IF ~CryptoVerify(dssePreAuthEncoding(envelope.payloadType, envelope.payload),
                          publicKey, envelope.signatures[1].sig)
    THEN Did(<<"preAuthEncoding", "verifyBlob">>,
             ClientError("artifact signature verification failed"))
    ELSE Did(<<"preAuthEncoding", "verifyBlob">>, Returned)

\* Verifier.verifyArtifactSignature(bundle, data)
verifyArtifactSignature(b, d, selector) ==
    LET publicKey == getPublicKey(b, selector)
    IN  IF publicKey.error # Returned
        THEN Did(<<"getPublicKey">>, publicKey.error)
        ELSE IF b.content.case = "messageSignature"
        THEN IF ~d.defined
             THEN Did(<<"getPublicKey">>,
                      ClientError("no data provided for message signature verification"))
             ELSE LET did == verifyMessageSignature(d.bytes, b.content.messageSignature,
                                                    publicKey.value)
                  IN  Did(<<"getPublicKey">> \o did.calls, did.error)
        ELSE IF b.content.case = "dsseEnvelope"
        THEN LET did == verifyDSSESignature(b.content.dsseEnvelope, publicKey.value)
             IN  Did(<<"getPublicKey">> \o did.calls, did.error)
        ELSE Did(<<"getPublicKey">>, Returned)

(***************************************************************************)
(* packages/client tlog/verify/index.ts.                                   *)
(*                                                                         *)
(* The callees verifyTLogBody (./body), verifyTLogSET (./set) and          *)
(* x509Certificate.validForDate (x509/cert) are given by what they decide: *)
(* the body carries the bundle's signature; the SET is the log's signature *)
(* over (body, integratedTime, logIndex, logID); the date lies in the      *)
(* certificate's [notBefore, notAfter).                                    *)
(***************************************************************************)
NoCert == [defined |-> FALSE, publicKey |-> 0, notBefore |-> 0, notAfter |-> 0,
           chainTrusted |-> FALSE]

\* The signature carried by the bundle content
ContentSignature(content) ==
    IF content.case = "messageSignature"
    THEN content.messageSignature.signature
    ELSE IF content.dsseEnvelope.signatures = <<>> THEN <<>>
    ELSE content.dsseEnvelope.signatures[1].sig

\* verifyTLogBody(entry, bundleContent)
ClientVerifyTLogBody(e, bundleContent) ==
    /\ bundleContent.case # "none"
    /\ e.canonicalizedBody.signature = ContentSignature(bundleContent)

\* The bytes the log signs for an entry
SETPayload(e) == <<e.canonicalizedBody.digest, e.integratedTime, e.logIndex, e.logId>>

\* verifyTLogSET(entry, tlogs)
verifyTLogSET(e, logs) ==
    \E i \in 1..Len(logs) :
        /\ logs[i].logId = e.logId
        /\ CryptoVerify(SETPayload(e), logs[i].publicKey,
                        e.inclusionPromise.signedEntryTimestamp)

\* x509Certificate.validForDate(date)
validForDate(cert, date) == cert.notBefore <= date /\ date < cert.notAfter

\* signingCertificate(bundle)
signingCertificate(b) ==
    IF b.verificationMaterial.content.case = "x509CertificateChain"
    THEN b.verificationMaterial.content.x509CertificateChain.certificates[1]
    ELSE NoCert

\* isTransparencyLogEntryWithInclusionPromise(entry)
isTransparencyLogEntryWithInclusionPromise(e) == e.inclusionPromise.defined

\* verifyTLogEntryOffline(entry, bundleContent, tlogs, signingCert)
verifyTLogEntryOffline(e, bundleContent, logs, signingCert) ==
    /\ ClientVerifyTLogBody(e, bundleContent)
    /\ (IF isTransparencyLogEntryWithInclusionPromise(e)
        THEN verifyTLogSET(e, logs) ELSE FALSE)
    /\ (IF signingCert.defined
        THEN validForDate(signingCert, e.integratedTime * 1000) ELSE TRUE)

\* tlogEntries.filter(...): a new array; the receiver is left as it was
VerifiedEntries(b, root) ==
    SelectSeq(b.verificationMaterial.tlogEntries,
              LAMBDA e : verifyTLogEntryOffline(e, b.content, root.tlogs, signingCertificate(b)))

\* verifyTLogEntries(bundle, trustedRoot, options)
TLogEntriesOnlineIgnored(b, root, tlogOptions) ==
    IF Len(VerifiedEntries(b, root)) < tlogOptions.threshold
    THEN ClientError("tlog verification failed")
    ELSE Returned

verifyTLogEntries(b, root, tlogOptions) ==
    IF tlogOptions.performOnlineVerification
    THEN ClientError("Online verification not implemented")
    ELSE IF Len(VerifiedEntries(b, root)) < tlogOptions.threshold
    THEN ClientError("tlog verification failed")
    ELSE Returned

\* sigstore.isCAVerificationOptions(options)
isCAVerificationOptions(opts) == opts.ctlogOptions.defined

\* ca.verifySigningCertificate(bundle, trustedRoot, options): the chain to a
\* trusted authority, given by its outcome
CAVerifySigningCertificate(b, root, opts) ==
    IF signingCertificate(b).chainTrusted
    THEN Returned
    ELSE ClientError("No valid certificate chain")

\* Verifier.verifySigningCertificate(bundle, options)
verifySigningCertificate(b, root, opts) ==
    IF ~isCAVerificationOptions(opts)
    THEN ClientError("no trusted certificates provided for verification")
    ELSE CAVerifySigningCertificate(b, root, opts)

\* An array method that returns a new array leaves its receiver alone
FilterInPlace(b, kept) ==
    [b EXCEPT !.verificationMaterial.tlogEntries = kept]

BundleAfterFilter(b, kept) == b

(***************************************************************************)
(* Verifier.verify of packages/client, and the calls made on it.           *)
(***************************************************************************)
\* Most tlog entries in one bundle
MaxEntries == 2
\* Most verify calls made on one verifier with the same arguments
MaxCalls == 2

\* sigstore.isBundleWithCertificateChain(bundle)
isBundleWithCertificateChain(b) ==
    b.verificationMaterial.content.case = "x509CertificateChain"

Snapshot(r) ==
    [trustedRoot |-> trustedRoot, keySelector |-> keySelector, bundle |-> bundle,
     verifyOptions |-> verifyOptions, clData |-> clData, result |-> r]

ClThrow(error) ==
    /\ clresult' = error
    /\ clpc' = "done"

\* this.verifyArtifactSignature(bundle, data)
ClVerifyArtifactSignature ==
    /\ clpc = "signature"
    /\ LET did == verifyArtifactSignature(bundle, clData, keySelector)
       IN  /\ calls' = calls \o <<"verifyArtifactSignature">> \o did.calls
           /\ IF did.error # Returned
              THEN ClThrow(did.error)
              ELSE clpc' = "certificate" /\ clresult' = clresult
    /\ UNCHANGED <<trustedRoot, keySelector, bundle, verifyOptions, clData, history>>
    /\ UNCHANGED <<cpVars, vfVars, fnVars, asVars>>

\* if (isBundleWithCertificateChain(bundle)) this.verifySigningCertificate(bundle, options)
ClVerifySigningCertificate ==
    /\ clpc = "certificate"
    /\ IF isBundleWithCertificateChain(bundle)
       THEN LET error == verifySigningCertificate(bundle, trustedRoot, verifyOptions)
            IN  /\ calls' = Append(calls, "verifySigningCertificate")
                /\ IF error # Returned
                   THEN ClThrow(error)
                   ELSE clpc' = "tlog" /\ clresult' = clresult
       ELSE /\ clpc' = "tlog"
            /\ UNCHANGED <<calls, clresult>>
    /\ UNCHANGED <<trustedRoot, keySelector, bundle, verifyOptions, clData, history>>
    /\ UNCHANGED <<cpVars, vfVars, fnVars, asVars>>

\* The calls verifyTLogEntries makes: none when online verification is
\* requested, else verifyTLogEntryOffline once per tlog entry
TLogCalls(b, tlogOptions) ==
    <<"verifyTLogEntries">> \o
    (IF tlogOptions.performOnlineVerification THEN <<>>
     ELSE [i \in DOMAIN b.verificationMaterial.tlogEntries |-> "verifyTLogEntryOffline"])

ClVerifyTLogEntriesAlways ==
    /\ clpc = "tlog"
    /\ calls' = calls \o TLogCalls(bundle, verifyOptions.tlogOptions)
    /\ clresult' = verifyTLogEntries(bundle, trustedRoot, verifyOptions.tlogOptions)
    /\ bundle' = BundleAfterFilter(bundle, VerifiedEntries(bundle, trustedRoot))
    /\ clpc' = "done"
    /\ UNCHANGED <<trustedRoot, keySelector, verifyOptions, clData, history>>
    /\ UNCHANGED <<cpVars, vfVars, fnVars, asVars>>

\* if (options.tlogOptions.disable === false) this.verifyTLogEntries(bundle, options)
ClVerifyTLogEntries ==
    /\ clpc = "tlog"
    /\ IF verifyOptions.tlogOptions.disable = FALSE
       THEN /\ calls' = calls \o TLogCalls(bundle, verifyOptions.tlogOptions)
            /\ clresult' = verifyTLogEntries(bundle, trustedRoot, verifyOptions.tlogOptions)
            /\ bundle' = BundleAfterFilter(bundle, VerifiedEntries(bundle, trustedRoot))
       ELSE /\ clresult' = Returned
            /\ UNCHANGED <<calls, bundle>>
    /\ clpc' = "done"
    /\ UNCHANGED <<trustedRoot, keySelector, verifyOptions, clData, history>>
    /\ UNCHANGED <<cpVars, vfVars, fnVars, asVars>>

\* The caller calls verify once more, with the same verifier and arguments
ClVerifyAgain ==
    /\ clpc = "done"
    /\ Len(history) < MaxCalls
    /\ history' = Append(history, Snapshot(clresult))
    /\ clpc' = "signature"
    /\ clresult' = Pending
    /\ calls' = <<>>
    /\ UNCHANGED <<trustedRoot, keySelector, bundle, verifyOptions, clData>>
    /\ UNCHANGED <<cpVars, vfVars, fnVars, asVars>>

(***************************************************************************)
(* Inputs of the client verifier                                           *)
(***************************************************************************)
SigningCert(chainTrusted) ==
    [defined |-> TRUE, publicKey |-> 7, notBefore |-> 10000, notAfter |-> 20000,
     chainTrusted |-> chainTrusted]

NoChain == [certificates |-> <<NoCert>>]
NoHint == [hint |-> ""]

X509CertificateChain(cert) ==
    [case |-> "x509CertificateChain",
     x509CertificateChain |-> [certificates |-> <<cert>>], publicKey |-> NoHint]

PublicKeyIdentifier(hint) ==
    [case |-> "publicKey", x509CertificateChain |-> NoChain, publicKey |-> [hint |-> hint]]

\* bundle.verificationMaterial.content is undefined
NoMaterial == [case |-> "none", x509CertificateChain |-> NoChain, publicKey |-> NoHint]

\* keySelector || (() => undefined)
NoKeySelector == {}

ConfiguredKeys ==
    { [hint |-> "known", pem |-> 3, wellFormed |-> TRUE],
      [hint |-> "garbled", pem |-> 4, wellFormed |-> FALSE] }

\* Verification material and the selector the verifier is built with
KeyCases ==
    { [material |-> X509CertificateChain(SigningCert(TRUE)), selector |-> NoKeySelector],
      [material |-> X509CertificateChain(SigningCert(FALSE)), selector |-> NoKeySelector],
      [material |-> PublicKeyIdentifier("known"), selector |-> ConfiguredKeys],
      [material |-> PublicKeyIdentifier("known"), selector |-> NoKeySelector],
      [material |-> PublicKeyIdentifier("unknown"), selector |-> ConfiguredKeys],
      [material |-> PublicKeyIdentifier("garbled"), selector |-> ConfiguredKeys],
      [material |-> NoMaterial, selector |-> ConfiguredKeys] }

\* The key the bundle's signer holds
ClientSignerKey(material) ==
    IF material.case = "x509CertificateChain" THEN 7
    ELSE IF material.publicKey.hint = "garbled" THEN 4 ELSE 3

ForgerKey == 66

NoEnvelope == [payloadType |-> <<>>, payload |-> <<>>, signatures |-> <<>>]
NoMessageSignature == [messageDigest |-> [digest |-> Hash(<<>>)], signature |-> <<>>]

MessageSignature(digest, signature) ==
    [case |-> "messageSignature",
     messageSignature |-> [messageDigest |-> [digest |-> digest], signature |-> signature],
     dsseEnvelope |-> NoEnvelope]

DSSEEnvelope(payloadType, payload, signatures) ==
    [case |-> "dsseEnvelope", messageSignature |-> NoMessageSignature,
     dsseEnvelope |-> [payloadType |-> payloadType, payload |-> payload,
                       signatures |-> signatures]]

\* bundle.content is undefined
NoContent ==
    [case |-> "none", messageSignature |-> NoMessageSignature, dsseEnvelope |-> NoEnvelope]

PayloadType == <<"a", "/", "b">>
Payload == <<1, 2>>

\* Which signatures a DSSE envelope carries: by the signer ("g") or not ("b")
EnvelopeShapes ==
    { <<>>, <<"g">>, <<"b">>, <<"g", "b">>, <<"b", "g">>, <<"g", "g">>, <<"b", "b">> }

DSSEContent(key, shape) ==
    DSSEEnvelope(PayloadType, Payload,
        [i \in 1..Len(shape) |->
            [sig |-> SignatureOf(IF shape[i] = "g" THEN key ELSE ForgerKey,
                                 dssePreAuthEncoding(PayloadType, Payload))]])

\* Bundle content signed by the key, and the artifact handed to verify with it
SignedContentCases(key) ==
    { [content |-> MessageSignature(Hash(Artifact), SignatureOf(key, Artifact)),
       data |-> Data(Artifact)] }
    \cup
    { [content |-> DSSEContent(key, shape), data |-> NoData] :
         shape \in {<<"g">>, <<"g", "b">>} }

\* Bundle content and the artifact handed to verify with it
ContentCases(key) ==
    { [content |-> MessageSignature(Hash(digested), SignatureOf(signer, Artifact)),
       data |-> d] :
         digested \in {Artifact, <<9>>}, signer \in {key, ForgerKey},
         d \in {Data(Artifact)} }
    \cup
    { [content |-> MessageSignature(Hash(Artifact), SignatureOf(key, Artifact)), data |-> d] :
         d \in {NoData, Data(<<2, 1>>)} }
    \cup
    { [content |-> DSSEContent(key, shape), data |-> NoData] : shape \in EnvelopeShapes }
    \cup
    { [content |-> NoContent, data |-> Data(Artifact)] }

RekorLogId == 1
RekorKey == 11

TrustedRoots == {[tlogs |-> <<[logId |-> RekorLogId, publicKey |-> RekorKey]>>]}

NoPromise == [defined |-> FALSE, signedEntryTimestamp |-> <<>>]
NoProof == [defined |-> FALSE, verifies |-> FALSE]

\* The SET the log issued when it integrated the entry at time signedTime
IssuedSET(logIndex, signedTime) ==
    [defined |-> TRUE,
     signedEntryTimestamp |-> SignatureOf(RekorKey, <<1, signedTime, logIndex, RekorLogId>>)]

TransparencyLogEntry(logIndex, integratedTime, bodySignature, promise, proof) ==
    [logIndex |-> logIndex, logId |-> RekorLogId, integratedTime |-> integratedTime,
     canonicalizedBody |-> [digest |-> 1, signature |-> bodySignature],
     inclusionPromise |-> promise, inclusionProof |-> proof]

EntryKinds == {"good", "tampered", "late", "proofOnly", "badProof", "otherBody"}

\* A tlog entry of a bundle with the given content
EntryOf(kind, content) ==
    LET sig == ContentSignature(content)
    IN  CASE kind = "good" ->
                 TransparencyLogEntry(5, 15, sig, IssuedSET(5, 15), NoProof)
          [] kind = "tampered" ->   \* integratedTime changed after the log signed
                 TransparencyLogEntry(6, 14, sig, IssuedSET(6, 15), NoProof)
          [] kind = "late" ->       \* integrated after the certificate expired
                 TransparencyLogEntry(7, 25, sig, IssuedSET(7, 25), NoProof)
          [] kind = "proofOnly" ->
                 TransparencyLogEntry(8, 15, sig, NoPromise,
                                      [defined |-> TRUE, verifies |-> TRUE])
          [] kind = "badProof" ->
                 TransparencyLogEntry(9, 15, sig, IssuedSET(9, 15),
                                      [defined |-> TRUE, verifies |-> FALSE])
          [] OTHER ->
                 TransparencyLogEntry(10, 15, <<0>>, IssuedSET(10, 15), NoProof)

EntryKindLists == UNION {[1..n -> EntryKinds] : n \in 0..MaxEntries}

MediaTypes == {"0.1", "0.2"}

Bundle(mediaType, material, content, kinds) ==
    [mediaType |-> mediaType,
     verificationMaterial |->
         [content |-> material,
          tlogEntries |-> [i \in 1..Len(kinds) |-> EntryOf(kinds[i], content)]],
     content |-> content]

TlogOptions(disable, online, threshold) ==
    [disable |-> disable, performOnlineVerification |-> online, threshold |-> threshold]

\* RequiredArtifactVerificationOptions
VerifyOptions ==
    { [ctlogOptions |-> [defined |-> TRUE], tlogOptions |-> TlogOptions(FALSE, FALSE, t)] :
          t \in {0, 1, 2} }
    \cup
    { [ctlogOptions |-> [defined |-> TRUE], tlogOptions |-> TlogOptions(FALSE, TRUE, t)] :
          t \in {0, 1, 2} }
    \cup
    { [ctlogOptions |-> [defined |-> TRUE], tlogOptions |-> TlogOptions(TRUE, FALSE, 1)],
      [ctlogOptions |-> [defined |-> TRUE], tlogOptions |-> TlogOptions(TRUE, TRUE, 2)],
      [ctlogOptions |-> [defined |-> FALSE], tlogOptions |-> TlogOptions(FALSE, FALSE, 1)] }

InitClient ==
    /\ trustedRoot \in TrustedRoots
    /\ \E k \in KeyCases :
          /\ keySelector = k.selector
          /\ \E c \in ContentCases(ClientSignerKey(k.material)),
                kinds \in EntryKindLists, mediaType \in MediaTypes :
                /\ (Len(kinds) > 1 => c \in SignedContentCases(ClientSignerKey(k.material)))
                /\ (Len(kinds) > 1 => k.material # NoMaterial)
                /\ bundle = Bundle(mediaType, k.material, c.content, kinds)
                /\ clData = c.data
    /\ verifyOptions \in VerifyOptions
    /\ clpc = "signature"
    /\ clresult = Pending
    /\ calls = <<>>
    /\ history = <<Snapshot(Pending)>>
    /\ CheckpointIdle
    /\ VerifierIdle
    /\ FunctionsIdle
    /\ AsyncIdle

NextClient ==
    \/ ClVerifyArtifactSignature
    \/ ClVerifySigningCertificate
    \/ ClVerifyTLogEntries
    \/ ClVerifyAgain

SpecClient == InitClient /\ [][NextClient]_vars

(***************************************************************************)
(* Properties of the client Verifier, checked under SpecClient.             *)
(***************************************************************************)
ClientDone == clpc = "done"

Called(name) == \E i \in 1..Len(calls) : calls[i] = name

ClientFailedWith(code) ==
    ClientDone /\ clresult.name = "VerificationError" /\ clresult.code = code

\* verify threw out of verifyArtifactSignature
SignatureStepFailed ==
    /\ ClientDone
    /\ clresult # Returned
    /\ ~Called("verifySigningCertificate")
    /\ ~Called("verifyTLogEntries")

\* verifyTLogEntries ran and counted the entries
EntriesCounted ==
    /\ ClientDone
    /\ Called("verifyTLogEntries")
    /\ ~verifyOptions.tlogOptions.performOnlineVerification

BundleEntries == bundle.verificationMaterial.tlogEntries

\* The entry carries a SET that does not verify over its fields
SETBroken(e) ==
    /\ e.inclusionPromise.defined
    /\ ~CryptoVerify(<<e.canonicalizedBody.digest, e.integratedTime, e.logIndex, e.logId>>,
                     RekorKey, e.inclusionPromise.signedEntryTimestamp)

\* C11: a bundle with a tlog entry whose integratedTime was changed after the
\* log signed its SET, so that the SET does not verify, fails verification
\* with TLOG_INCLUSION_PROMISE_ERROR.
C11_BrokenSETIsPromiseError ==
    (EntriesCounted /\ \E i \in 1..Len(BundleEntries) : SETBroken(BundleEntries[i])) =>
        ClientFailedWith("TLOG_INCLUSION_PROMISE_ERROR")

OutsideValidity(cert, e) ==
    e.integratedTime * 1000 < cert.notBefore \/ e.integratedTime * 1000 >= cert.notAfter

\* C12: a certificate-signed bundle with any tlog entry integrated outside
\* the leaf's [notBefore, notAfter) is rejected with CERTIFICATE_ERROR, other
\* entries inside the window or not.
C12_TimestampOutsideValidityIsCertificateError ==
    ( /\ EntriesCounted
      /\ isBundleWithCertificateChain(bundle)
      /\ \E i \in 1..Len(BundleEntries) :
             OutsideValidity(signingCertificate(bundle), BundleEntries[i]) ) =>
        ClientFailedWith("CERTIFICATE_ERROR")

\* The entry carries the item mandatory for the bundle version, and it verifies
MandatoryItemVerifies(mediaType, e) ==
    IF mediaType = "0.1"
    THEN e.inclusionPromise.defined /\ ~SETBroken(e)
    ELSE e.inclusionProof.defined /\ e.inclusionProof.verifies

QualifiedCount ==
    Cardinality({i \in 1..Len(BundleEntries) :
                    MandatoryItemVerifies(bundle.mediaType, BundleEntries[i])})

\* C13: only entries carrying the item mandatory for the bundle version (the
\* SET for v0.1, the inclusion proof for v0.2 and later), verified, count
\* toward the threshold: when the entries are counted and verify returns,
\* at least threshold entries carry their mandatory item and it verifies.
C13_OnlyMandatoryItemCounts ==
    (EntriesCounted /\ clresult = Returned) =>
        QualifiedCount >= verifyOptions.tlogOptions.threshold

IsMessageSignature == bundle.content.case = "messageSignature"

KeyObtained == getPublicKey(bundle, keySelector).error = Returned

ObtainedKey == getPublicKey(bundle, keySelector).value

\* C14: for a message-signature bundle verification fails when no artifact is
\* supplied; with an artifact it fails on a digest mismatch without checking
\* the signature, and otherwise on a signature that does not verify; each of
\* the three failures is a SIGNATURE_ERROR.
C14_MessageSignatureFailuresAreSignatureErrors ==
    (IsMessageSignature /\ KeyObtained /\ Called("verifyArtifactSignature")) =>
        LET ms == bundle.content.messageSignature
        IN  /\ ~clData.defined =>
                  /\ ClientFailedWith("SIGNATURE_ERROR")
                  /\ ~Called("hash") /\ ~Called("verifyBlob")
            /\ (clData.defined /\ Hash(clData.bytes) # ms.messageDigest.digest) =>
                  /\ ClientFailedWith("SIGNATURE_ERROR")
                  /\ ~Called("verifyBlob")
            /\ ( /\ clData.defined
                 /\ Hash(clData.bytes) = ms.messageDigest.digest
                 /\ ms.signature # SignatureOf(ObtainedKey, clData.bytes) ) =>
                  /\ ClientFailedWith("SIGNATURE_ERROR")
                  /\ Called("hash") /\ Called("verifyBlob")

\* The order of the three checks of C14, without the error code
MessageSignatureChecksInOrder ==
    (IsMessageSignature /\ KeyObtained /\ Called("verifyArtifactSignature")) =>
        LET ms == bundle.content.messageSignature
        IN  /\ ~clData.defined =>
                  SignatureStepFailed /\ ~Called("hash") /\ ~Called("verifyBlob")
            /\ (clData.defined /\ Hash(clData.bytes) # ms.messageDigest.digest) =>
                  SignatureStepFailed /\ ~Called("verifyBlob")
            /\ ( /\ clData.defined
                 /\ Hash(clData.bytes) = ms.messageDigest.digest
                 /\ ms.signature # SignatureOf(ObtainedKey, clData.bytes) ) =>
                  SignatureStepFailed /\ Called("hash") /\ Called("verifyBlob")

IsDSSE == bundle.content.case = "dsseEnvelope"

EnvelopeSignatures == bundle.content.dsseEnvelope.signatures

FirstSignatureVerifies ==
    EnvelopeSignatures[1].sig =
        SignatureOf(ObtainedKey,
                    dssePreAuthEncoding(bundle.content.dsseEnvelope.payloadType,
                                        bundle.content.dsseEnvelope.payload))

\* C15: for a DSSE bundle the signature step succeeds exactly when the first
\* signature of the envelope verifies over the PAE of payloadType and
\* payload; the signatures after the first, present or not, valid or not,
\* do not change that.
C15_FirstDSSESignatureDecides ==
    ( /\ IsDSSE /\ KeyObtained /\ EnvelopeSignatures # <<>>
      /\ Called("verifyArtifactSignature") ) =>
        (SignatureStepFailed <=> ~FirstSignatureVerifies)

C15_Witness ==
    /\ IsDSSE /\ KeyObtained
    /\ Len(EnvelopeSignatures) = 2
    /\ FirstSignatureVerifies
    /\ EnvelopeSignatures[2] # EnvelopeSignatures[1]
    /\ ClientDone
    /\ clresult = Returned

IsPublicKeyBundle == bundle.verificationMaterial.content.case = "publicKey"

\* C16: for a bundle with a public-key hint, verification fails with
\* PUBLIC_KEY_ERROR when no trusted key is found for the hint (for every hint
\* when no key selector was configured); no signature is accepted without a
\* key obtained for the hint.
C16_MissingKeyIsPublicKeyError ==
    ( /\ IsPublicKeyBundle
      /\ Called("verifyArtifactSignature")
      /\ ~\E k \in keySelector : k.hint = bundle.verificationMaterial.content.publicKey.hint )
        => ClientFailedWith("PUBLIC_KEY_ERROR")

\* The part of C16 without the error code: no key for the hint, no success
NoSignatureAcceptedWithoutKey ==
    (IsPublicKeyBundle /\ Called("verifyArtifactSignature") /\ ~KeyObtained) =>
        /\ SignatureStepFailed
        /\ ~Called("verifyBlob")

MaxPayloadLength == 12

\* Result(v): the value a function returned
Result(v) == [name |-> "returned", code |-> "none", message |-> "", value |-> v]

InTotoType ==
    <<"a","p","p","l","i","c","a","t","i","o","n","/","v","n","d",".",
      "i","n","-","t","o","t","o","+","j","s","o","n">>

PayloadTypes ==
    { <<>>, <<"a">>, <<"a", "/", "b">>, <<"t", "e", "x", "t", "/", "a", "b", "c", "d">>,
      <<"t", "e", "x", "t", "/", "p", "l", "a", "i", "n">>, InTotoType,
      <<"a", SP, "1">>, <<"a", EMDASH, "b">> }

\* Buffer.from('payload')
PayloadText == <<112, 97, 121, 108, 111, 97, 100>>

Payloads ==
    { [i \in 1..n |-> (i * 37) % 256] : n \in 0..MaxPayloadLength }
    \cup { <<0>>, <<32>>, <<255, 10>>, <<49, 32, 50>>, PayloadText }

PAEInputs == [payloadType : PayloadTypes, payload : Payloads]

InitPAE ==
    /\ input \in PAEInputs
    /\ output = NotApplied
    /\ CheckpointIdle
    /\ VerifierIdle
    /\ ClientIdle
    /\ AsyncIdle

\* dssePreAuthEncoding(payloadType, payload)
ApplyPreAuthEncoding ==
    /\ output.name = "pending"
    /\ output' = Result(dssePreAuthEncoding(input.payloadType, input.payload))
    /\ UNCHANGED input
    /\ UNCHANGED <<cpVars, vfVars, clVars, asVars>>

NextPAE == ApplyPreAuthEncoding

SpecPAE == InitPAE /\ [][NextPAE]_vars

\* The number a sequence of decimal digit bytes writes
RECURSIVE DecimalValue(_)
DecimalValue(d) ==
    IF d = <<>> THEN 0
    ELSE 10 * DecimalValue(SubSeq(d, 1, Len(d) - 1)) + (d[Len(d)] - 48)

\* d writes n in decimal, without sign and without leading zeros
IsDecimalOf(d, n) ==
    /\ Len(d) >= 1
    /\ \A i \in 1..Len(d) : d[i] \in 48..57
    /\ (Len(d) > 1 => d[1] # 48)
    /\ DecimalValue(d) = n

IsAsciiText(str) == \A i \in 1..Len(str) : str[i] # EMDASH

\* out is "DSSEv1 " n1 " " type " " n2 " " payload, the numbers k1 and k2 digits long
IsPAEOf(out, payloadType, payload, k1, k2) ==
    LET t == Len(payloadType)
        n == Len(payload)
    IN  /\ Len(out) = 7 + k1 + 1 + t + 1 + k2 + 1 + n
        /\ SubSeq(out, 1, 7) = <<68, 83, 83, 69, 118, 49, 32>>
        /\ IsDecimalOf(SubSeq(out, 8, 7 + k1), t)
        /\ out[8 + k1] = 32
        /\ (IsAsciiText(payloadType) =>
               \A i \in 1..t : out[8 + k1 + i] = AsciiOf(payloadType[i]))
        /\ out[9 + k1 + t] = 32
        /\ IsDecimalOf(SubSeq(out, 10 + k1 + t, 9 + k1 + t + k2), n)
        /\ out[10 + k1 + t + k2] = 32
        /\ SubSeq(out, 11 + k1 + t + k2, Len(out)) = payload

\* C20: dssePreAuthEncoding(payloadType, payload) is the ASCII bytes of
\* "DSSEv1 ", the length of payloadType in decimal, a space, payloadType, a
\* space, the length of payload in decimal and a space, followed by the
\* payload bytes as they are, the empty payload included.
C20_PreAuthEncodingLayout ==
    output.name = "returned" =>
        \E k1, k2 \in 1..3 :
            IsPAEOf(output.value, input.payloadType, input.payload, k1, k2)

C20_Witness ==
    /\ output.name = "returned"
    /\ input.payloadType = InTotoType
    /\ input.payload = <<>>
    /\ Len(output.value) = 7 + 2 + 1 + 28 + 1 + 1 + 1

(***************************************************************************)
(* verifyTLogBody(entry, content): the canonicalized body of a tlog entry  *)
(* against the signature content of its bundle.  The body is the parsed    *)
(* JSON; its signature is base64 text.                                     *)
(***************************************************************************)
BodyError(message) == VerificationError("TLOG_BODY_ERROR", message)

SupportedIntotoVersion == <<"0", ".", "0", ".", "2">>
OtherVersion == <<"0", ".", "0", ".", "1">>

\* content.compareSignature(signature)
CompareSignature(content, signature) == BufferEqual(content.signature, signature)

\* content.compareDigest(digest)
CompareDigest(content, digest) == digest = Hash(content.plaintext)

Intoto002WithoutCount(body, content) ==
    IF ~body.signatures.defined \/ body.signatures.list = <<>>
    THEN BodyError("signature count mismatch")
    ELSE IF ~CompareSignature(content, Base64Decode(body.signatures.list[1]))
    THEN BodyError("signature mismatch")
    ELSE IF ~body.payloadHash.defined \/ ~CompareDigest(content, body.payloadHash.value)
    THEN BodyError("payload hash mismatch")
    ELSE Returned

\* intoto 0.0.2: signature count, signature, payload hash
verifyIntoto002TLogBody(body, content) ==
    IF ~body.signatures.defined \/ Len(body.signatures.list) # content.signatureCount
    THEN BodyError("signature count mismatch")
    ELSE IF ~CompareSignature(content, Base64Decode(body.signatures.list[1]))
    THEN BodyError("signature mismatch")
    ELSE IF ~body.payloadHash.defined \/ ~CompareDigest(content, body.payloadHash.value)
    THEN BodyError("payload hash mismatch")
    ELSE Returned

\* verifyIntotoTLogBody(body, content)
verifyIntotoTLogBody(body, content) ==
    IF body.apiVersion = SupportedIntotoVersion
    THEN verifyIntoto002TLogBody(body, content)
    ELSE BodyError("unsupported intoto version")

\* hashedrekord 0.0.1: signature, hash of the artifact
verifyHashedRekordTLogBody(body, content) ==
    IF body.apiVersion # OtherVersion
    THEN BodyError("unsupported hashedrekord version")
    ELSE IF ~body.signatures.defined \/ body.signatures.list = <<>>
    THEN BodyError("signature mismatch")
    ELSE IF ~CompareSignature(content, Base64Decode(body.signatures.list[1]))
    THEN BodyError("signature mismatch")
    ELSE IF ~body.payloadHash.defined \/ ~CompareDigest(content, body.payloadHash.value)
    THEN BodyError("digest mismatch")
    ELSE Returned

\* dsse 0.0.1: signature count, signature, payload hash
verifyDSSETLogBody(body, content) ==
    IF body.apiVersion # OtherVersion
    THEN BodyError("unsupported dsse version")
    ELSE verifyIntoto002TLogBody(body, content)

\* verifyTLogBody(entry, sigContent)
verifyTLogBody(e, content) ==
    LET body == e.canonicalizedBody
    IN  IF e.kindVersion.kind # body.kind \/ e.kindVersion.version # body.apiVersion
        THEN BodyError("kind/version mismatch")
        ELSE CASE body.kind = "intoto" -> verifyIntotoTLogBody(body, content)
               [] body.kind = "hashedrekord" -> verifyHashedRekordTLogBody(body, content)
               [] body.kind = "dsse" -> verifyDSSETLogBody(body, content)
               [] OTHER -> BodyError("unsupported kind")

\* Inputs
KindVersions ==
    { [kind |-> "intoto", version |-> SupportedIntotoVersion],
      [kind |-> "intoto", version |-> OtherVersion],
      [kind |-> "hashedrekord", version |-> OtherVersion],
      [kind |-> "dsse", version |-> OtherVersion] }

BundleSignature == <<7, 1>>
OtherSignature == <<7, 2>>

\* signatureContent(bundle)
SignatureContents ==
    { [signature |-> BundleSignature, plaintext |-> <<1, 2>>, signatureCount |-> n] :
          n \in {1, 2} }

BodyHashes ==
    { [defined |-> TRUE, value |-> Hash(<<1, 2>>)],
      [defined |-> TRUE, value |-> Hash(<<9>>)],
      [defined |-> FALSE, value |-> Hash(<<>>)] }

BodySignatures ==
    { [defined |-> FALSE, list |-> <<>>],
      [defined |-> TRUE, list |-> <<Base64Encode(BundleSignature)>>],
      [defined |-> TRUE, list |-> <<Base64Encode(OtherSignature)>>],
      [defined |-> TRUE, list |-> <<Base64Encode(BundleSignature), Base64Encode(BundleSignature)>>] }

TLogBodyInputs ==
    { [entry |-> [kindVersion |-> kv,
                  canonicalizedBody |-> [kind |-> bkv.kind, apiVersion |-> bkv.version,
                                         payloadHash |-> h, signatures |-> sigs]],
       content |-> c] :
          kv \in KindVersions, bkv \in KindVersions, h \in BodyHashes,
          sigs \in BodySignatures, c \in SignatureContents }

InitTLogBody ==
    /\ input \in TLogBodyInputs
    /\ output = NotApplied
    /\ CheckpointIdle
    /\ VerifierIdle
    /\ ClientIdle
    /\ AsyncIdle

\* verifyTLogBody(tlogEntry, content)
ApplyVerifyTLogBody ==
    /\ output.name = "pending"
    /\ LET r == verifyTLogBody(input.entry, input.content)
       IN  output' = [name |-> r.name, code |-> r.code, message |-> r.message, value |-> <<>>]
    /\ UNCHANGED input
    /\ UNCHANGED <<cpVars, vfVars, clVars, asVars>>

NextTLogBody == ApplyVerifyTLogBody

SpecTLogBody == InitTLogBody /\ [][NextTLogBody]_vars

InputBody == input.entry.canonicalizedBody

KindVersionAgrees ==
    /\ input.entry.kindVersion.kind = InputBody.kind
    /\ input.entry.kindVersion.version = InputBody.apiVersion

\* What an intoto body must satisfy
IntotoBodyAgrees ==
    /\ InputBody.apiVersion = SupportedIntotoVersion
    /\ InputBody.payloadHash.defined
    /\ InputBody.payloadHash.value = Hash(input.content.plaintext)
    /\ InputBody.signatures.defined
    /\ Len(InputBody.signatures.list) = input.content.signatureCount
    /\ InputBody.signatures.list[1] = Base64Encode(input.content.signature)

\* C17: verifyTLogBody returns only if the entry's kindVersion equals the
\* body's (kind, apiVersion) and, for an intoto body, the version is
\* supported, the payload hash is present and equals the hash of the DSSE
\* payload, the signatures are as many as the envelope's and the signature
\* equals the bundle's; otherwise it throws VerificationError TLOG_BODY_ERROR.
C17_TLogBodyMismatchIsBodyError ==
    output.name # "pending" =>
        /\ output.name = "returned" =>
               KindVersionAgrees /\ (InputBody.kind = "intoto" => IntotoBodyAgrees)
        /\ (~KindVersionAgrees \/ (InputBody.kind = "intoto" /\ ~IntotoBodyAgrees)) =>
               output.name = "VerificationError" /\ output.code = "TLOG_BODY_ERROR"
        /\ output.name # "returned" =>
               output.name = "VerificationError" /\ output.code = "TLOG_BODY_ERROR"

C17_Witness ==
    /\ output.name = "VerificationError"
    /\ output.code = "TLOG_BODY_ERROR"
    /\ KindVersionAgrees
    /\ InputBody.kind = "intoto"
    /\ InputBody.apiVersion = SupportedIntotoVersion
    /\ InputBody.payloadHash.defined
    /\ InputBody.payloadHash.value = Hash(input.content.plaintext)
    /\ Len(InputBody.signatures.list) = 1
    /\ input.content.signatureCount = 2

(***************************************************************************)
(* bundleToJSON / bundleFromJSON: the protobuf-JSON form of a bundle.      *)
(* Binary fields are base64 text in JSON, 64-bit integers are decimal      *)
(* strings on both sides, an optional message that is undefined is left    *)
(* out of the JSON object.  An optional value is a sequence of at most one *)
(* element: <<>> is undefined (or, in JSON, the absent key).               *)
(***************************************************************************)
undefined == <<>>
Some(v) == <<v>>

ValidationError(message) == [name |-> "ValidationError", code |-> "none", message |-> message]

\* InclusionPromise.toJSON / fromJSON
InclusionPromiseToJSON(promise) ==
    IF promise = undefined THEN undefined
    ELSE Some([signedEntryTimestamp |-> Base64Encode(promise[1].signedEntryTimestamp)])

InclusionPromiseDefaulted(json) ==
    IF json = undefined THEN Some([signedEntryTimestamp |-> <<>>])
    ELSE Some([signedEntryTimestamp |-> Base64Decode(json[1].signedEntryTimestamp)])

InclusionPromiseFromJSON(json) ==
    IF json = undefined THEN undefined
    ELSE Some([signedEntryTimestamp |-> Base64Decode(json[1].signedEntryTimestamp)])

\* InclusionProof.toJSON / fromJSON
InclusionProofToJSON(proof) ==
    IF proof = undefined THEN undefined
    ELSE Some([checkpoint |-> proof[1].checkpoint,
               hashes |-> [i \in DOMAIN proof[1].hashes |-> Base64Encode(proof[1].hashes[i])],
               logIndex |-> proof[1].logIndex,
               rootHash |-> Base64Encode(proof[1].rootHash),
               treeSize |-> proof[1].treeSize])

InclusionProofFromJSON(json) ==
    IF json = undefined THEN undefined
    ELSE Some([checkpoint |-> json[1].checkpoint,
               hashes |-> [i \in DOMAIN json[1].hashes |-> Base64Decode(json[1].hashes[i])],
               logIndex |-> json[1].logIndex,
               rootHash |-> Base64Decode(json[1].rootHash),
               treeSize |-> json[1].treeSize])

\* TransparencyLogEntry.toJSON / fromJSON
TransparencyLogEntryToJSON(e) ==
    [logIndex |-> e.logIndex,
     logId |-> [keyId |-> Base64Encode(e.logId.keyId)],
     kindVersion |-> e.kindVersion,
     canonicalizedBody |-> Base64Encode(e.canonicalizedBody),
     integratedTime |-> e.integratedTime,
     inclusionPromise |-> InclusionPromiseToJSON(e.inclusionPromise),
     inclusionProof |-> InclusionProofToJSON(e.inclusionProof)]

TransparencyLogEntryFromJSON(json) ==
    [logIndex |-> json.logIndex,
     logId |-> [keyId |-> Base64Decode(json.logId.keyId)],
     kindVersion |-> json.kindVersion,
     canonicalizedBody |-> Base64Decode(json.canonicalizedBody),
     integratedTime |-> json.integratedTime,
     inclusionPromise |-> InclusionPromiseFromJSON(json.inclusionPromise),
     inclusionProof |-> InclusionProofFromJSON(json.inclusionProof)]

\* TimestampVerificationData.toJSON / fromJSON
TimestampVerificationDataToJSON(tvd) ==
    IF tvd = undefined THEN undefined
    ELSE Some([rfc3161Timestamps |->
                   [i \in DOMAIN tvd[1].rfc3161Timestamps |->
                        [signedTimestamp |-> Base64Encode(tvd[1].rfc3161Timestamps[i].signedTimestamp)]]])

TimestampVerificationDataFromJSON(json) ==
    IF json = undefined THEN undefined
    ELSE Some([rfc3161Timestamps |->
                   [i \in DOMAIN json[1].rfc3161Timestamps |->
                        [signedTimestamp |-> Base64Decode(json[1].rfc3161Timestamps[i].signedTimestamp)]]])

\* verificationMaterial.content: x509CertificateChain | certificate | publicKey
MaterialContentToJSON(c) ==
    [case |-> c.case,
     certificates |-> [i \in DOMAIN c.certificates |-> [rawBytes |-> Base64Encode(c.certificates[i].rawBytes)]],
     hint |-> c.hint]

MaterialContentFromJSON(json) ==
    [case |-> json.case,
     certificates |-> [i \in DOMAIN json.certificates |-> [rawBytes |-> Base64Decode(json.certificates[i].rawBytes)]],
     hint |-> json.hint]

\* envelopeToJSON(envelope)
envelopeToJSON(envelope) ==
    [payload |-> Base64Encode(envelope.payload),
     payloadType |-> envelope.payloadType,
     signatures |-> [i \in DOMAIN envelope.signatures |->
                         [sig |-> Base64Encode(envelope.signatures[i].sig),
                          keyid |-> envelope.signatures[i].keyid]]]

\* envelopeFromJSON(json)
envelopeFromJSON(json) ==
    [payload |-> Base64Decode(json.payload),
     payloadType |-> json.payloadType,
     signatures |-> [i \in DOMAIN json.signatures |->
                         [sig |-> Base64Decode(json.signatures[i].sig),
                          keyid |-> json.signatures[i].keyid]]]

\* MessageSignature.toJSON / fromJSON
MessageSignatureToJSON(m) ==
    [messageDigest |-> [algorithm |-> m.messageDigest.algorithm,
                        digest |-> Base64Encode(m.messageDigest.digest)],
     signature |-> Base64Encode(m.signature)]

MessageSignatureFromJSON(json) ==
    [messageDigest |-> [algorithm |-> json.messageDigest.algorithm,
                        digest |-> Base64Decode(json.messageDigest.digest)],
     signature |-> Base64Decode(json.signature)]

\* bundleToJSON(bundle)
bundleToJSON(b) ==
    [mediaType |-> b.mediaType,
     verificationMaterial |->
         [content |-> MaterialContentToJSON(b.verificationMaterial.content),
          tlogEntries |-> [i \in DOMAIN b.verificationMaterial.tlogEntries |->
                               TransparencyLogEntryToJSON(b.verificationMaterial.tlogEntries[i])],
          timestampVerificationData |->
              TimestampVerificationDataToJSON(b.verificationMaterial.timestampVerificationData)],
     content |-> IF b.content.case = "dsseEnvelope"
                 THEN [case |-> "dsseEnvelope", value |-> envelopeToJSON(b.content.value)]
                 ELSE [case |-> "messageSignature", value |-> MessageSignatureToJSON(b.content.value)]]

\* Bundle.fromJSON(obj)
ProtoBundleFromJSON(json) ==
    [mediaType |-> json.mediaType,
     verificationMaterial |->
         [content |-> MaterialContentFromJSON(json.verificationMaterial.content),
          tlogEntries |-> [i \in DOMAIN json.verificationMaterial.tlogEntries |->
                               TransparencyLogEntryFromJSON(json.verificationMaterial.tlogEntries[i])],
          timestampVerificationData |->
              TimestampVerificationDataFromJSON(json.verificationMaterial.timestampVerificationData)],
     content |-> IF json.content.case = "dsseEnvelope"
                 THEN [case |-> "dsseEnvelope", value |-> envelopeFromJSON(json.content.value)]
                 ELSE [case |-> "messageSignature", value |-> MessageSignatureFromJSON(json.content.value)]]

\* What each schema version requires of a bundle
AllEntries(b, P(_)) ==
    \A i \in DOMAIN b.verificationMaterial.tlogEntries : P(b.verificationMaterial.tlogEntries[i])

HasInclusionPromise(e) == e.inclusionPromise # undefined
HasInclusionProof(e) == e.inclusionProof # undefined

BundleInvalidity(b) ==
    IF b.mediaType = "0.1"
    THEN IF AllEntries(b, HasInclusionPromise) THEN <<>> ELSE <<"inclusionPromise">>
    ELSE IF ~AllEntries(b, HasInclusionProof) THEN <<"inclusionProof">>
    ELSE IF b.mediaType = "0.3" /\ b.verificationMaterial.content.case = "x509CertificateChain"
    THEN <<"certificate">>
    ELSE <<>>

\* bundleFromJSON(obj)
bundleFromJSON(json) ==
    LET b == ProtoBundleFromJSON(json)
    IN  IF BundleInvalidity(b) = <<>>
        THEN [name |-> "returned", code |-> "none", message |-> "", value |-> b]
        ELSE [name |-> "ValidationError", code |-> "none", message |-> "invalid bundle", value |-> <<>>]

\* Inputs
Buffers == { <<>>, <<70>>, <<70, 79>>, <<70, 79, 79>> }

SerializedMediaTypes == {"0.1", "0.2", "0.3"}

SerializedMaterials(raw) ==
    { [case |-> "x509CertificateChain", certificates |-> <<[rawBytes |-> raw]>>, hint |-> ""],
      [case |-> "certificate", certificates |-> <<[rawBytes |-> raw]>>, hint |-> ""],
      [case |-> "publicKey", certificates |-> <<>>, hint |-> "hint"] }

SerializedPromises(raw) == { undefined, Some([signedEntryTimestamp |-> raw]) }

SerializedProofs(raw) ==
    { undefined,
      Some([checkpoint |-> [envelope |-> ""], hashes |-> <<>>, logIndex |-> "",
            rootHash |-> <<>>, treeSize |-> ""]),
      Some([checkpoint |-> [envelope |-> "note"], hashes |-> <<raw, <<1, 2>>>>, logIndex |-> "123",
            rootHash |-> raw, treeSize |-> "9007199254740993"]) }

SerializedTimestamps(raw) ==
    { undefined, Some([rfc3161Timestamps |-> <<[signedTimestamp |-> raw]>>]) }

SerializedContents(raw) ==
    { [case |-> "dsseEnvelope",
       value |-> [payload |-> <<65, 66, 67>>, payloadType |-> "application/json",
                  signatures |-> <<[sig |-> raw, keyid |-> ""]>>]],
      [case |-> "messageSignature",
       value |-> [messageDigest |-> [algorithm |-> "SHA2_256", digest |-> raw],
                  signature |-> <<66, 65, 82>>]] }

SerializedBundlesOf(raw) ==
    { [mediaType |-> m,
       verificationMaterial |->
           [content |-> vm,
            tlogEntries |-> <<[logIndex |-> "123", logId |-> [keyId |-> <<49, 50, 51>>],
                               kindVersion |-> [kind |-> "intoto", version |-> "0.1.0"],
                               canonicalizedBody |-> raw, integratedTime |-> "0",
                               inclusionPromise |-> promise, inclusionProof |-> proof]>>,
            timestampVerificationData |-> tvd],
       content |-> c] :
          m \in SerializedMediaTypes, vm \in SerializedMaterials(<<70, 79, 79>>),
          promise \in SerializedPromises(raw), proof \in SerializedProofs(raw),
          tvd \in SerializedTimestamps(raw), c \in SerializedContents(raw) }

SerializedBundles == UNION { SerializedBundlesOf(raw) : raw \in Buffers }

InitBundleJSON ==
    /\ input \in SerializedBundles
    /\ output = NotApplied
    /\ CheckpointIdle
    /\ VerifierIdle
    /\ ClientIdle
    /\ AsyncIdle

\* const json = bundleToJSON(bundle)
ApplyBundleToJSON ==
    /\ output.name = "pending"
    /\ output' = [name |-> "json", code |-> "none", message |-> "", value |-> bundleToJSON(input)]
    /\ UNCHANGED input
    /\ UNCHANGED <<cpVars, vfVars, clVars, asVars>>

\* const deserializedBundle = bundleFromJSON(json)
ApplyBundleFromJSON ==
    /\ output.name = "json"
    /\ output' = bundleFromJSON(output.value)
    /\ UNCHANGED input
    /\ UNCHANGED <<cpVars, vfVars, clVars, asVars>>

NextBundleJSON == ApplyBundleToJSON \/ ApplyBundleFromJSON

SpecBundleJSON == InitBundleJSON /\ [][NextBundleJSON]_vars

RoundTripDone == output.name \in {"returned", "ValidationError"}

\* The bundles the schema versions describe
BundleOfItsVersion(b) ==
    \/ /\ b.mediaType = "0.1"
       /\ b.verificationMaterial.content.case = "x509CertificateChain"
       /\ AllEntries(b, HasInclusionPromise)
    \/ /\ b.mediaType = "0.2"
       /\ AllEntries(b, HasInclusionProof)
    \/ /\ b.mediaType = "0.3"
       /\ b.verificationMaterial.content.case = "certificate"
       /\ AllEntries(b, HasInclusionProof)

\* C19: bundleFromJSON(bundleToJSON(b)) equals b for a bundle of every schema
\* version (v0.1 with chain and inclusion promise, v0.2 with inclusion proof,
\* v0.3 with a single certificate), undefined fields included.
C19_BundleJSONRoundTrip ==
    (RoundTripDone /\ BundleOfItsVersion(input)) =>
        output.name = "returned" /\ output.value = input

C19_Witness ==
    /\ output.name = "returned"
    /\ input.mediaType = "0.2"
    /\ BundleOfItsVersion(input)
    /\ input.verificationMaterial.tlogEntries[1].inclusionPromise = undefined
    /\ input.verificationMaterial.timestampVerificationData = undefined
    /\ Len(input.verificationMaterial.tlogEntries[1].canonicalizedBody) = 1
    /\ output.value.verificationMaterial.tlogEntries[1].inclusionPromise = undefined

(***************************************************************************)
(* The worked example of the pre-authentication encoding                   *)
(***************************************************************************)
InTotoExample == input.payloadType = InTotoType /\ input.payload = PayloadText

\* "DSSEv1 <n> application/vnd.in-toto+json 7 payload" as bytes
ExamplePAE(n) ==
    BufferFromAscii(<<"D", "S", "S", "E", "v", "1", SP>> \o n \o <<SP>> \o InTotoType \o <<SP, "7", SP>>
                    \o <<"p", "a", "y", "l", "o", "a", "d">>)

\* C21 as stated: the encoding of ("application/vnd.in-toto+json", "payload")
\* is "DSSEv1 32 application/vnd.in-toto+json 7 payload".
C21_ExampleHasLength32 ==
    (output.name = "returned" /\ InTotoExample) => output.value = ExamplePAE(<<"3", "2">>)

\* C21 amended: the encoding of ("application/vnd.in-toto+json", "payload")
\* is "DSSEv1 28 application/vnd.in-toto+json 7 payload": the type is 28
\* characters long.
C21_ExampleHasLength28 ==
    (output.name = "returned" /\ InTotoExample) => output.value = ExamplePAE(<<"2", "8">>)

C21_Witness ==
    /\ output.name = "returned"
    /\ InTotoExample
    /\ Len(output.value) = 48

(***************************************************************************)
(* toSignedEntity(bundle, artifact): the bundle in the form the verifier   *)
(* works on.                                                               *)
(***************************************************************************)
MaxBundleEntries == 2
MaxBundleTimestamps == 2

\* { $case: 'transparency-log', tlogEntry }
TLogEvidence(e) == [case |-> "transparency-log", tlogEntry |-> Some(e), timestamp |-> undefined]

\* { $case: 'timestamp-authority', timestamp }
TSAEvidence(ts) ==
    [case |-> "timestamp-authority", tlogEntry |-> undefined, timestamp |-> Some(ts.signedTimestamp)]

\* timestampVerificationData?.rfc3161Timestamps ?? []
RFC3161Timestamps(b) ==
    LET tvd == b.verificationMaterial.timestampVerificationData
    IN  IF tvd = undefined THEN <<>> ELSE tvd[1].rfc3161Timestamps

\* key(bundle)
EntityKey(b) ==
    LET c == b.verificationMaterial.content
    IN  IF c.case = "publicKey"
        THEN [case |-> "public-key", hint |-> c.hint, certificate |-> undefined]
        ELSE [case |-> "certificate", hint |-> "", certificate |-> Some(c.certificates[1].rawBytes)]

\* signatureContent(bundle, artifact)
EntitySignature(b) ==
    IF b.content.case = "dsseEnvelope"
    THEN [case |-> "dsseEnvelope", signature |-> b.content.value.signatures[1].sig]
    ELSE [case |-> "messageSignature", signature |-> b.content.value.signature]

SignedEntityWithoutTSA(b) ==
    LET entries == b.verificationMaterial.tlogEntries
    IN  [signature |-> EntitySignature(b),
         key |-> EntityKey(b),
         tlogEntries |-> entries,
         timestamps |-> [i \in DOMAIN entries |-> TLogEvidence(entries[i])]]

toSignedEntity(b) ==
    LET entries == b.verificationMaterial.tlogEntries
        tokens == RFC3161Timestamps(b)
    IN  [signature |-> EntitySignature(b),
         key |-> EntityKey(b),
         tlogEntries |-> entries,
         timestamps |-> [i \in DOMAIN entries |-> TLogEvidence(entries[i])]
                            \o [i \in DOMAIN tokens |-> TSAEvidence(tokens[i])]]

\* Inputs
BundleEntry(logIndex) ==
    [logIndex |-> logIndex, logId |-> [keyId |-> <<49, 50, 51>>],
     kindVersion |-> [kind |-> "intoto", version |-> "0.0.2"],
     canonicalizedBody |-> <<>>, integratedTime |-> "0",
     inclusionPromise |-> Some([signedEntryTimestamp |-> <<1>>]),
     inclusionProof |-> undefined]

BundleEntryLists ==
    UNION { [1..n -> {BundleEntry("123"), BundleEntry("124"), BundleEntry("125")}] :
                n \in 0..MaxBundleEntries }

BundleTimestampData ==
    {undefined} \cup
    { Some([rfc3161Timestamps |-> ts]) :
          ts \in UNION { [1..n -> {[signedTimestamp |-> <<48, 1>>], [signedTimestamp |-> <<48, 2>>]}] :
                             n \in 0..MaxBundleTimestamps } }

EntityBundles ==
    { [mediaType |-> "0.3",
       verificationMaterial |-> [content |-> vm, tlogEntries |-> entries,
                                 timestampVerificationData |-> tvd],
       content |-> c] :
          vm \in SerializedMaterials(<<70, 79, 79>>), entries \in BundleEntryLists,
          tvd \in BundleTimestampData, c \in SerializedContents(<<66>>) }

InitSignedEntity ==
    /\ input \in EntityBundles
    /\ output = NotApplied
    /\ CheckpointIdle
    /\ VerifierIdle
    /\ ClientIdle
    /\ AsyncIdle

\* const entity = toSignedEntity(bundle)
ApplyToSignedEntity ==
    /\ output.name = "pending"
    /\ output' = Result(toSignedEntity(input))
    /\ UNCHANGED input
    /\ UNCHANGED <<cpVars, vfVars, clVars, asVars>>

NextSignedEntity == ApplyToSignedEntity

SpecSignedEntity == InitSignedEntity /\ [][NextSignedEntity]_vars

\* How many elements of seq satisfy P
Occurrences(seq, P(_)) == Cardinality({i \in DOMAIN seq : P(seq[i])})

\* C22: the timestamps of toSignedEntity(bundle) hold one element per tlog
\* entry and one per RFC3161 timestamp of the bundle, each tagged with its
\* kind; their number is the sum of both (no timestamp verification data
\* counts as none), and tlogEntries has one element per tlog entry.
C22_OneTimestampPerEntryAndToken ==
    output.name = "returned" =>
        LET entries == input.verificationMaterial.tlogEntries
            tokens == RFC3161Timestamps(input)
            stamps == output.value.timestamps
        IN  /\ Len(stamps) = Len(entries) + Len(tokens)
            /\ Len(output.value.tlogEntries) = Len(entries)
            /\ \A i \in DOMAIN stamps : stamps[i].case \in {"transparency-log", "timestamp-authority"}
            /\ \A e \in {entries[i] : i \in DOMAIN entries} :
                   Occurrences(stamps, LAMBDA t : t.case = "transparency-log" /\ t.tlogEntry = Some(e))
                       = Occurrences(entries, LAMBDA x : x = e)
            /\ \A ts \in {tokens[i] : i \in DOMAIN tokens} :
                   Occurrences(stamps, LAMBDA t : t.case = "timestamp-authority"
                                                  /\ t.timestamp = Some(ts.signedTimestamp))
                       = Occurrences(tokens, LAMBDA x : x = ts)
            /\ Occurrences(stamps, LAMBDA t : t.case = "transparency-log") = Len(entries)

C22_Witness ==
    /\ output.name = "returned"
    /\ Len(input.verificationMaterial.tlogEntries) = 1
    /\ Len(RFC3161Timestamps(input)) = 2
    /\ Len(output.value.timestamps) = 3

(***************************************************************************)
(* Further properties of the client verifier                               *)
(***************************************************************************)
OfflineCalls ==
    {"verifyArtifactSignature", "getPublicKey", "hash", "preAuthEncoding", "verifyBlob",
     "verifySigningCertificate", "verifyTLogEntries", "verifyTLogEntryOffline"}

OnlineRequested == verifyOptions.tlogOptions.performOnlineVerification

\* C23: when performOnlineVerification is requested verifyTLogEntries throws
\* a VerificationError before it examines any tlog entry, whatever the
\* entries and the threshold; no call of a verification is an online lookup.
C23_OnlineVerificationThrows ==
    /\ \A i \in 1..Len(calls) : calls[i] \in OfflineCalls
    /\ (ClientDone /\ Called("verifyTLogEntries") /\ OnlineRequested) =>
           /\ clresult.name = "VerificationError"
           /\ ~Called("verifyTLogEntryOffline")

C23_Witness ==
    /\ ClientDone
    /\ Called("verifyTLogEntries")
    /\ OnlineRequested
    /\ verifyOptions.tlogOptions.threshold = 0
    /\ Len(BundleEntries) = 2
    /\ clresult.name = "VerificationError"

\* C28: verify returns without error only if the bundle signature was
\* verified (verifyBlob was called and succeeded) with a key from the leaf
\* certificate or the key selector, also for a bundle without content or
\* without verification material.
C28_ReturnImpliesSignatureVerified ==
    (ClientDone /\ clresult = Returned) =>
        /\ Called("verifyBlob")
        /\ bundle.verificationMaterial.content.case \in {"x509CertificateChain", "publicKey"}
        /\ getPublicKey(bundle, keySelector).error = Returned

\* With content the bundle's signature is always checked before verify returns
SignatureVerifiedWhenContentPresent ==
    (ClientDone /\ clresult = Returned /\ bundle.content.case # "none") =>
        /\ Called("verifyBlob")
        /\ bundle.verificationMaterial.content.case \in {"x509CertificateChain", "publicKey"}
        /\ getPublicKey(bundle, keySelector).error = Returned

SignaturePasses == verifyArtifactSignature(bundle, clData, keySelector).error = Returned

CertificatePasses ==
    isBundleWithCertificateChain(bundle) =>
        verifySigningCertificate(bundle, trustedRoot, verifyOptions) = Returned

\* Position of the first call of the name in calls, 0 if there is none
FirstCall(name) ==
    IF Called(name) THEN CHOOSE i \in 1..Len(calls) :
                             calls[i] = name /\ \A j \in 1..(i - 1) : calls[j] # name
    ELSE 0

\* C30: with tlogOptions.disable no tlog verification is made and verify
\* succeeds once the signature and (if present) the certificate chain have
\* verified, whatever the entries, threshold and performOnlineVerification;
\* without disable the tlog entries are verified only after the signature
\* and the certificate chain have both passed.
C30_DisableSkipsTLogVerification ==
    /\ (ClientDone /\ verifyOptions.tlogOptions.disable) =>
           /\ ~Called("verifyTLogEntries")
           /\ ~Called("verifyTLogEntryOffline")
           /\ ((SignaturePasses /\ CertificatePasses) => clresult = Returned)
    /\ Called("verifyTLogEntries") =>
           /\ ~verifyOptions.tlogOptions.disable
           /\ SignaturePasses
           /\ CertificatePasses
           /\ FirstCall("verifyArtifactSignature") < FirstCall("verifyTLogEntries")
           /\ (isBundleWithCertificateChain(bundle) =>
                  /\ Called("verifySigningCertificate")
                  /\ FirstCall("verifySigningCertificate") < FirstCall("verifyTLogEntries"))

C30_Witness ==
    /\ ClientDone
    /\ verifyOptions.tlogOptions.disable
    /\ OnlineRequested
    /\ isBundleWithCertificateChain(bundle)
    /\ Len(BundleEntries) = 2
    /\ clresult = Returned

(***************************************************************************)
(* Further properties of verifyCheckpoint                                  *)
(***************************************************************************)
NoteSignatures == 1..Len(signedNote.signatures)

\* C24: verifyCheckpoint returns only if every signature of the signed note
\* has the key hint of some trusted log and verifies under that log's key;
\* one signature with an unknown key hint or that does not verify makes it
\* fail with TLOG_INCLUSION_PROOF_ERROR (invalid checkpoint signature), and
\* the signatures are checked before the root hash is compared.
C24_EverySignatureCheckedBeforeRootHash ==
    pc = "done" =>
        /\ result = Returned =>
               SignedNoteParsed /\ \A i \in NoteSignatures : VerifiesUnderSomeLog(i)
        /\ (SignedNoteParsed /\ \E i \in NoteSignatures : ~VerifiesUnderSomeLog(i)) =>
               IsProofError(result)
        /\ (SignaturesChecked /\ \E i \in NoteSignatures : ~VerifiesUnderSomeLog(i)) =>
               SignaturesRejected

\* Once the checkpoint text has parsed, a bad signature is always reported
\* as an invalid checkpoint signature, also when the root hash differs
BadSignatureRejectedOnceParsed ==
    (pc = "done" /\ CheckpointParsed /\ \E i \in NoteSignatures : ~VerifiesUnderSomeLog(i)) =>
        SignaturesRejected /\ IsProofError(result)

\* The log's validity window contains the entry's integrated time
ValidAtIntegratedTime(log) ==
    log.validFor.start <= entry.integratedTime * 1000
        /\ entry.integratedTime * 1000 <= log.validFor.end

\* Signature i was made by a log of the trust material that was not valid at
\* the integrated time, and no log valid then has its key hint
SignedByLogNotValidThen(i) ==
    /\ \E k \in 1..Len(tlogs) :
           /\ ~ValidAtIntegratedTime(tlogs[k])
           /\ SubSeq(tlogs[k].logID, 1, 4) = signedNote.signatures[i].keyHint
           /\ signedNote.signatures[i].signature
                  = SignatureOf(tlogs[k].publicKey, Utf8(signedNote.note))
    /\ \A k \in 1..Len(tlogs) :
           SubSeq(tlogs[k].logID, 1, 4) = signedNote.signatures[i].keyHint
               => ~ValidAtIntegratedTime(tlogs[k])

\* C25: only the logs valid at the entry's integratedTime (in seconds) are
\* considered: a checkpoint signature made with the key of a trusted log that
\* was not valid then is not accepted, although it verifies under that key.
C25_OnlyLogsValidAtIntegratedTime ==
    /\ pc # "start" =>
           \A k \in 1..Len(validTLogs) :
               ValidAtIntegratedTime(validTLogs[k])
                   /\ \E j \in 1..Len(tlogs) : tlogs[j] = validTLogs[k]
    /\ (pc = "done" /\ SignedNoteParsed /\ \E i \in NoteSignatures : SignedByLogNotValidThen(i)) =>
           /\ result # Returned
           /\ SignaturesChecked => SignaturesRejected

C25_Witness ==
    /\ pc = "done"
    /\ SignaturesChecked
    /\ Len(signedNote.signatures) = 1
    /\ SignedByLogNotValidThen(1)
    /\ checkpoint.logHash = entry.inclusionProof.rootHash
    /\ SignaturesRejected

\* C29: the outcome does not depend on the order of the trusted logs: the
\* signatures are accepted whenever each verifies under some trusted log,
\* valid at the integrated time, whose log ID begins with its key hint, also
\* when several trusted logs share the key hint.
C29_AcceptedUnderAnyMatchingLog ==
    (SignaturesChecked /\ \A i \in NoteSignatures : VerifiesUnderSomeLog(i))
        => ~SignaturesRejected

\* Every key hint of the note belongs to at most one log valid at the time
KeyHintsUnambiguous ==
    \A i \in NoteSignatures : \A j, k \in 1..Len(validTLogs) :
        (SubSeq(validTLogs[j].logID, 1, 4) = signedNote.signatures[i].keyHint
            /\ SubSeq(validTLogs[k].logID, 1, 4) = signedNote.signatures[i].keyHint)
        => j = k

\* With unambiguous key hints the order of the trusted logs does not matter
AcceptedWhenKeyHintsUnambiguous ==
    (SignaturesChecked /\ KeyHintsUnambiguous
        /\ \A i \in NoteSignatures : VerifiesUnderSomeLog(i))
        => ~SignaturesRejected

(***************************************************************************)
(* FulcioSigner.sign (packages/sign, signer/fulcio/index.ts).              *)
(*                                                                         *)
(* sign is an async function: one action per stretch of code between two   *)
(* awaits.  The identity provider, the key holder and the CA are the       *)
(* environment: trace records each call sign makes to them.                *)
(***************************************************************************)
InternalError(code, message) == [name |-> "InternalError", code |-> code, message |-> message]

\* What a collaborator rejects with
CollaboratorError(message) == [name |-> "Error", code |-> "none", message |-> message]

NoToken == [jwt |-> "", sub |-> <<>>]

\* Identity tokens: the JWT and its subject claim
Tokens == { [jwt |-> "token-a", sub |-> <<97>>], [jwt |-> "token-b", sub |-> <<98, 99>>] }

\* this.identityProvider: getToken() resolves with the token or rejects
IdentityProviders ==
    { [rejects |-> FALSE, token |-> t] : t \in Tokens } \cup { [rejects |-> TRUE, token |-> NoToken] }

\* this.keyHolder: what its sign(data) resolves with
KeyHolders ==
    { [kind |-> "publicKey", key |-> 21], [kind |-> "publicKey", key |-> 22],
      [kind |-> "x509Certificate", key |-> 23], [kind |-> "rejects", key |-> 24],
      [kind |-> "rejectsSecond", key |-> 25] }

SignedData == { <<>>, <<1>>, <<1, 2>> }

\* What the CA answers: a certificate chain, or the request fails
CAResponses ==
    { [fails |-> FALSE, chain |-> c] : c \in {<<"leaf">>, <<"leaf", "intermediate">>,
                                             <<"leaf", "intermediate", "root">>} }
    \cup { [fails |-> TRUE, chain |-> <<>>] }

\* oidc.extractJWTSubject(identityToken)
extractJWTSubject(token) == token.sub

NoSignature == [signature |-> <<>>, key |-> [case |-> "none", publicKey |-> 0]]

\* keyHolder.sign(data), when it resolves
KeyHolderSign(holder, data) ==
    [signature |-> SignatureOf(holder.key, data),
     key |-> [case |-> IF holder.kind = "x509Certificate" THEN "x509Certificate" ELSE "publicKey",
              publicKey |-> holder.key]]

\* A call sign makes to a collaborator
Call(name, token, publicKey, bytes) ==
    [name |-> name, token |-> token.jwt, publicKey |-> publicKey, bytes |-> bytes]

FsThrow(error) ==
    /\ fsresult' = error
    /\ fspc' = "done"

InitFulcioSigner ==
    /\ fulcio \in [identityProvider : IdentityProviders, keyHolder : KeyHolders, data : SignedData]
    /\ fspc = "start"
    /\ identityToken = NoToken
    /\ challenge = NoSignature
    /\ certificates = <<>>
    /\ fsresult = Pending
    /\ trace = <<>>
    /\ CheckpointIdle
    /\ VerifierIdle
    /\ ClientIdle
    /\ FunctionsIdle
    /\ PromiseAnyIdle

\* sign(data) is called: this.identityProvider.getToken()
FsGetIdentityToken ==
    /\ fspc = "start"
    /\ trace' = Append(trace, Call("getToken", NoToken, 0, <<>>))
    /\ fspc' = "awaitToken"
    /\ UNCHANGED <<fulcio, identityToken, challenge, certificates, fsresult>>
    /\ UNCHANGED <<cpVars, vfVars, clVars, fnVars, paVars>>

\* The token arrives: extract the subject, this.keyHolder.sign(Buffer.from(subject))
FsSignChallenge ==
    /\ fspc = "awaitToken"
    /\ IF fulcio.identityProvider.rejects
       THEN /\ FsThrow(InternalError("IDENTITY_TOKEN_READ_ERROR", "error retrieving identity token"))
            /\ UNCHANGED <<identityToken, trace>>
       ELSE /\ identityToken' = fulcio.identityProvider.token
            /\ trace' = Append(trace, Call("keyHolder.sign", NoToken, 0,
                                           extractJWTSubject(fulcio.identityProvider.token)))
            /\ fspc' = "awaitChallenge"
            /\ UNCHANGED fsresult
    /\ UNCHANGED <<fulcio, challenge, certificates>>
    /\ UNCHANGED <<cpVars, vfVars, clVars, fnVars, paVars>>

\* if (challenge.key.$case !== 'publicKey')
UnexpectedKeyFormat(made) == made.key.case # "publicKey"

\* The challenge arrives: check its key, this.ca.createSigningCertificate(...)
FsCreateSigningCertificate ==
    /\ fspc = "awaitChallenge"
    /\ IF fulcio.keyHolder.kind = "rejects"
       THEN /\ FsThrow(CollaboratorError("sign failed"))
            /\ UNCHANGED <<challenge, trace>>
       ELSE LET made == KeyHolderSign(fulcio.keyHolder, extractJWTSubject(identityToken))
            IN  /\ challenge' = made
                /\ IF UnexpectedKeyFormat(made)
                   THEN /\ FsThrow(InternalError("CA_CREATE_SIGNING_CERTIFICATE_ERROR",
                                                 "unexpected format for signing key"))
                        /\ UNCHANGED trace
                   ELSE /\ trace' = Append(trace, Call("createSigningCertificate", identityToken,
                                                       made.key.publicKey, made.signature))
                        /\ fspc' = "awaitCertificates"
                        /\ UNCHANGED fsresult
    /\ UNCHANGED <<fulcio, identityToken, certificates>>
    /\ UNCHANGED <<cpVars, vfVars, clVars, fnVars, paVars>>

\* The CA answers: this.keyHolder.sign(data)
FsSignData ==
    /\ fspc = "awaitCertificates"
    /\ \E response \in CAResponses :
          IF response.fails
          THEN /\ FsThrow(InternalError("CA_CREATE_SIGNING_CERTIFICATE_ERROR",
                                        "error creating signing certificate"))
               /\ UNCHANGED <<certificates, trace>>
          ELSE /\ certificates' = response.chain
               /\ trace' = Append(trace, Call("keyHolder.sign", NoToken, 0, fulcio.data))
               /\ fspc' = "awaitSignature"
               /\ UNCHANGED fsresult
    /\ UNCHANGED <<fulcio, identityToken, challenge>>
    /\ UNCHANGED <<cpVars, vfVars, clVars, fnVars, paVars>>

SignatureWithChain(signature, chain) ==
    [name |-> "returned", code |-> "none", message |-> "",
     signature |-> signature.signature,
     key |-> [case |-> "x509Certificate", certificate |-> chain]]

\* return { signature: signature.signature, key: { $case: 'x509Certificate', certificate: certificates[0] } }
SignatureWithCertificate(signature, chain) ==
    [name |-> "returned", code |-> "none", message |-> "",
     signature |-> signature.signature,
     key |-> [case |-> "x509Certificate", certificate |-> SubSeq(chain, 1, 1)]]

\* The data signature arrives: return it with the first certificate
FsReturn ==
    /\ fspc = "awaitSignature"
    /\ IF fulcio.keyHolder.kind = "rejectsSecond"
       THEN FsThrow(CollaboratorError("sign failed"))
       ELSE /\ fsresult' = SignatureWithCertificate(KeyHolderSign(fulcio.keyHolder, fulcio.data),
                                                    certificates)
            /\ fspc' = "done"
    /\ UNCHANGED <<fulcio, identityToken, challenge, certificates, trace>>
    /\ UNCHANGED <<cpVars, vfVars, clVars, fnVars, paVars>>

NextFulcioSigner ==
    \/ FsGetIdentityToken
    \/ FsSignChallenge
    \/ FsCreateSigningCertificate
    \/ FsSignData
    \/ FsReturn

SpecFulcioSigner == InitFulcioSigner /\ [][NextFulcioSigner]_vars

TraceNames == [i \in 1..Len(trace) |-> trace[i].name]

\* s is a prefix of t
IsPrefix(s, t) == Len(s) <= Len(t) /\ SubSeq(t, 1, Len(s)) = s

SignOrder == <<"getToken", "keyHolder.sign", "createSigningCertificate", "keyHolder.sign">>

FsFailedWith(code) == fspc = "done" /\ fsresult.name = "InternalError" /\ fsresult.code = code

\* C26: sign gets the identity token, signs the token's subject with the key
\* holder, requests the certificate from the CA with the token, the
\* challenge's public key and the challenge signature, then signs the data
\* with the same key holder, in this order.  A failing identity provider
\* gives InternalError IDENTITY_TOKEN_READ_ERROR and a challenge key that is
\* no public key InternalError CA_CREATE_SIGNING_CERTIFICATE_ERROR, both
\* without a call to the CA and without signing the data; on success sign
\* returns the data signature with only the first certificate of the chain.
C26_SignStepsInOrder ==
    /\ IsPrefix(TraceNames, SignOrder)
    /\ \A i \in 1..Len(trace) :
           /\ (i = 2 => trace[i].bytes = fulcio.identityProvider.token.sub)
           /\ (i = 3 => /\ trace[i].token = fulcio.identityProvider.token.jwt
                        /\ trace[i].publicKey = fulcio.keyHolder.key
                        /\ trace[i].bytes = SignatureOf(fulcio.keyHolder.key,
                                                        fulcio.identityProvider.token.sub))
           /\ (i = 4 => trace[i].bytes = fulcio.data)
    /\ (fspc = "done" /\ fulcio.identityProvider.rejects) =>
           FsFailedWith("IDENTITY_TOKEN_READ_ERROR") /\ TraceNames = <<"getToken">>
    /\ (fspc = "done" /\ ~fulcio.identityProvider.rejects
            /\ fulcio.keyHolder.kind = "x509Certificate") =>
           /\ FsFailedWith("CA_CREATE_SIGNING_CERTIFICATE_ERROR")
           /\ TraceNames = <<"getToken", "keyHolder.sign">>
    /\ (fspc = "done" /\ fsresult.name = "returned") =>
           /\ TraceNames = SignOrder
           /\ fsresult.signature = SignatureOf(fulcio.keyHolder.key, fulcio.data)
           /\ fsresult.key.case = "x509Certificate"
           /\ fsresult.key.certificate = <<certificates[1]>>

C26_Witness ==
    /\ fspc = "done"
    /\ fsresult.name = "returned"
    /\ Len(certificates) = 3
    /\ TraceNames = SignOrder

(***************************************************************************)
(* promiseAny(values) (util.ts).                                           *)
(*                                                                         *)
(* Promise.all over one inverted promise per input, then the outcome of    *)
(* Promise.all inverted again.  A promise reaction runs as a job of the    *)
(* job queue, first in first out.  The state after construction is the     *)
(* one right after the call, the inputs still pending; input i settles     *)
(* with the value or the reason i.                                         *)
(***************************************************************************)
MaxPromises == 3

PendingPromise == [state |-> "pending", value |-> 0, errors |-> <<>>]
Fulfilled(v) == [state |-> "fulfilled", value |-> v, errors |-> <<>>]
Rejected(v) == [state |-> "rejected", value |-> v, errors |-> <<>>]

Job(kind, i) == [kind |-> kind, index |-> i]

NotInverted(promise) == promise

\* new Promise((resolve, reject) => promise.then(reject, resolve))
Invert(promise) ==
    IF promise.state = "fulfilled" THEN Rejected(promise.value) ELSE Fulfilled(promise.value)

\* Promise.all, when element i of its input has settled as p
PromiseAllElement(allPromise, i, p) ==
    IF p.state = "rejected"
    THEN IF allPromise.state = "pending"
         THEN [allPromise EXCEPT !.state = "rejected", !.value = p.value]
         ELSE allPromise
    ELSE LET filled == [allPromise EXCEPT !.errors[i] = p.value, !.remaining = @ - 1]
         IN  IF filled.remaining = 0 /\ filled.state = "pending"
             THEN [filled EXCEPT !.state = "fulfilled"]
             ELSE filled

\* .then((errors) => Promise.reject(errors), (value) => Promise.resolve(value))
OuterOf(allPromise) ==
    IF allPromise.state = "fulfilled"
    THEN [state |-> "rejected", value |-> 0, errors |-> allPromise.errors]
    ELSE Fulfilled(allPromise.value)

InitPromiseAny ==
    /\ \E n \in 0..MaxPromises :
          /\ values = [i \in 1..n |-> PendingPromise]
          /\ inverted = [i \in 1..n |-> PendingPromise]
          /\ all = [state |-> IF n = 0 THEN "fulfilled" ELSE "pending", value |-> 0,
                    errors |-> [i \in 1..n |-> 0], remaining |-> n]
          /\ jobs = IF n = 0 THEN <<Job("outer", 0)>> ELSE <<>>
    /\ outer = PendingPromise
    /\ settled = <<>>
    /\ CheckpointIdle
    /\ VerifierIdle
    /\ ClientIdle
    /\ FunctionsIdle
    /\ SignerIdle

\* Input promise i fulfils
FulfilInput ==
    \E i \in 1..Len(values) :
        /\ values[i].state = "pending"
        /\ values' = [values EXCEPT ![i] = Fulfilled(i)]
        /\ jobs' = Append(jobs, Job("invert", i))
        /\ settled' = Append(settled, Job("input", i))
        /\ UNCHANGED <<inverted, all, outer>>
        /\ UNCHANGED <<cpVars, vfVars, clVars, fnVars, fsVars>>

\* Input promise i rejects
RejectInput ==
    \E i \in 1..Len(values) :
        /\ values[i].state = "pending"
        /\ values' = [values EXCEPT ![i] = Rejected(i)]
        /\ jobs' = Append(jobs, Job("invert", i))
        /\ settled' = Append(settled, Job("input", i))
        /\ UNCHANGED <<inverted, all, outer>>
        /\ UNCHANGED <<cpVars, vfVars, clVars, fnVars, fsVars>>

\* The reaction of promise.then(reject, resolve) runs
RunInvert ==
    /\ jobs # <<>>
    /\ Head(jobs).kind = "invert"
    /\ LET i == Head(jobs).index
       IN  /\ inverted' = [inverted EXCEPT ![i] = Invert(values[i])]
           /\ jobs' = Append(Tail(jobs), Job("all", i))
    /\ UNCHANGED <<values, all, outer, settled>>
    /\ UNCHANGED <<cpVars, vfVars, clVars, fnVars, fsVars>>

\* The reaction of Promise.all to its element runs
RunPromiseAll ==
    /\ jobs # <<>>
    /\ Head(jobs).kind = "all"
    /\ LET i == Head(jobs).index
           after == PromiseAllElement(all, i, inverted[i])
       IN  /\ all' = after
           /\ jobs' = IF all.state = "pending" /\ after.state # "pending"
                      THEN Append(Tail(jobs), Job("outer", 0))
                      ELSE Tail(jobs)
    /\ UNCHANGED <<values, inverted, outer, settled>>
    /\ UNCHANGED <<cpVars, vfVars, clVars, fnVars, fsVars>>

\* The reaction of .then(...) on Promise.all runs
RunOuter ==
    /\ jobs # <<>>
    /\ Head(jobs).kind = "outer"
    /\ outer' = IF outer.state = "pending" THEN OuterOf(all) ELSE outer
    /\ settled' = Append(settled, Job("outer", 0))
    /\ jobs' = Tail(jobs)
    /\ UNCHANGED <<values, inverted, all>>
    /\ UNCHANGED <<cpVars, vfVars, clVars, fnVars, fsVars>>

NextPromiseAny ==
    \/ FulfilInput
    \/ RejectInput
    \/ RunInvert
    \/ RunPromiseAll
    \/ RunOuter

SpecPromiseAny == InitPromiseAny /\ [][NextPromiseAny]_vars

Inputs == 1..Len(values)

SomeFulfilled == \E i \in Inputs : values[i].state = "fulfilled"
AllRejected == \A i \in Inputs : values[i].state = "rejected"

\* The input that fulfilled first
FirstFulfilled ==
    LET k == CHOOSE k \in 1..Len(settled) :
                 /\ settled[k].kind = "input"
                 /\ values[settled[k].index].state = "fulfilled"
                 /\ \A j \in 1..(k - 1) :
                        settled[j].kind = "input" => values[settled[j].index].state # "fulfilled"
    IN  settled[k].index

OuterSettlements == Cardinality({k \in 1..Len(settled) : settled[k].kind = "outer"})

\* C27: promiseAny fulfils with the value of the first input that fulfils,
\* without waiting for pending inputs and whatever has rejected before; it
\* rejects only after every input has rejected, with all reasons in input
\* order (the empty array for no input); it settles once, and never rejects
\* when an input fulfils.
C27_FirstFulfilmentWins ==
    /\ outer.state = "fulfilled" => SomeFulfilled /\ outer.value = values[FirstFulfilled].value
    /\ outer.state = "rejected" =>
           AllRejected /\ outer.errors = [i \in Inputs |-> values[i].value]
    /\ (jobs = <<>> /\ SomeFulfilled) => outer.state = "fulfilled"
    /\ (jobs = <<>> /\ AllRejected) => outer.state = "rejected"
    /\ OuterSettlements <= 1

\* Fulfilled after one input rejected and while another is still pending
C27_Witness ==
    /\ outer.state = "fulfilled"
    /\ Len(values) = 3
    /\ \E i, j \in Inputs :
           /\ values[i].state = "rejected"
           /\ values[j].state = "pending"
    /\ settled[1].kind = "input"
    /\ values[settled[1].index].state = "rejected"

====
